---- MODULE Spec2Model ----
(***************************************************************************)
(* Model of the QUANTCORE terminal: the view-state controller of           *)
(* src/App.tsx (App component: per-module state hooks, submit handlers,    *)
(* system log), the Gemini service functions that follow it in the same    *)
(* file, and the citation rendering of the TerminalOutput component        *)
(* (src/unnamed/part_000).                                                 *)
(*                                                                         *)
(* Conventions.                                                            *)
(*  - A JavaScript string is a sequence of tokens; a token is one          *)
(*    character or one fixed literal chunk.  "" is << >>, so a string is   *)
(*    truthy exactly when it is not << >>.  Template literals are          *)
(*    concatenations (\o).                                                 *)
(*  - An optional value (undefined / null / missing property) is a         *)
(*    sequence of length at most one: None is << >>, Some(x) is <<x>>.     *)
(*  - One action is one run-to-completion step of the event loop: an       *)
(*    event handler up to its await, or the continuation of an awaited     *)
(*    promise together with the microtasks it schedules.                   *)
(*  - A log entry keeps level and message.  Its id (Math.random) and       *)
(*    timestamp (wall clock) are values of the environment that no         *)
(*    transition reads; they are left out of the entry.                    *)
(***************************************************************************)
EXTENDS Integers, Sequences, FiniteSets, TLC

(***************************************************************************)
(* Bounds of the model.                                                    *)
(***************************************************************************)
\* events (view switches, input edits, validated submits, file picks, logging
\* timer ticks, the unmount, direct gateway calls) a behaviour may start
MaxEvents == 4
\* appends already applied to the log in the initial states of LogSpec
MaxPrefix == 52
\* length of a grounding chunk list handed to TerminalOutput in RenderSpec
MaxChunks == 3
\* generateContent calls in flight at one time in GatewaySpec
MaxPending == 1

(***************************************************************************)
(* JavaScript values.                                                      *)
(***************************************************************************)
None == << >>
Some(x) == <<x>>
IsSome(o) == Len(o) = 1
Lit(s) == <<s>>
Truthy(s) == s # << >>

\* a || b for an optional string a and a string b
OrElse(a, b) == IF IsSome(a) /\ Truthy(a[1]) THEN a[1] ELSE b

\* truthiness of an optional number (undefined and 0 are falsy)
TruthyNum(n) == IsSome(n) /\ n[1] # 0

Min(a, b) == IF a < b THEN a ELSE b

\* Array.prototype.slice(from, to) with 0 <= from <= to
Slice(s, from, to) == SubSeq(s, from + 1, Min(to, Len(s)))

\* String.prototype.split(sep) for a one-token separator: the pieces between
\* the occurrences of sep, in order
RECURSIVE SplitFrom(_, _, _)
SplitFrom(s, sep, cur) ==
  IF s = << >> THEN <<cur>>
  ELSE IF Head(s) = sep THEN <<cur>> \o SplitFrom(Tail(s), sep, << >>)
  ELSE SplitFrom(Tail(s), sep, Append(cur, Head(s)))
Split(s, sep) == SplitFrom(s, sep, << >>)

\* arr[i] with JavaScript's 0-based index; undefined when out of range
At(arr, i) == IF i + 1 \in 1..Len(arr) THEN Some(arr[i + 1]) ELSE None

(***************************************************************************)
(* types.ts                                                                *)
(***************************************************************************)
ModuleType == {"DASHBOARD", "QUANT_PREDICT", "DEAL_FLOW", "RESOURCE_MAP", "DATA_LAB"}

\* a {uri, title} reference; either property may be missing at run time
\* (the chunks arrive from the service cast "as any[]")
Ref(uri, title) == [uri |-> uri, title |-> title]
GroundingChunk(web, maps) == [web |-> web, maps |-> maps]

\* AnalysisResult: text, and groundingChunks when the property is present
AnalysisResult(text, chunks) == [text |-> text, groundingChunks |-> chunks]

LogEntry(level, message) == [level |-> level, message |-> message]

(***************************************************************************)
(* State.                                                                  *)
(***************************************************************************)
VARIABLES
  activeModule, systemLogs,
  quantQuery, quantResult, quantLoading,
  dealSector, dealResult, dealLoading,
  resourceType, resourceResult, resourceLoading,
  headlines,
  analysisPrompt, analysisImage, analysisResult, analysisLoading,
  API_KEY,     \* process.env.API_KEY: Some(key) or None
  keyRequired, \* the GoogleGenAI constructor of this build throws without a key
  mounted,     \* the App is mounted: its mount effect has run
  interval,    \* the setInterval timer is active
  unmounted,   \* the App was unmounted: the cleanup of its effect has run
  inflight,    \* generateContent calls issued and not yet answered
  settled,     \* the gateway promise that settled last, if any
  reading,     \* files handed to a FileReader that has not finished
  events,      \* events started so far
  props,       \* props of a TerminalOutput instance (RenderSpec)
  rendered     \* what that instance rendered, if it has rendered

vars == <<activeModule, systemLogs, quantQuery, quantResult, quantLoading,
          dealSector, dealResult, dealLoading, resourceType, resourceResult,
          resourceLoading, headlines, analysisPrompt, analysisImage,
          analysisResult, analysisLoading, API_KEY, keyRequired, mounted, interval,
          unmounted, inflight, settled, reading, events, props, rendered>>

quantVars == <<quantQuery, quantResult, quantLoading>>
dealVars == <<dealSector, dealResult, dealLoading>>
resourceVars == <<resourceType, resourceResult, resourceLoading>>
analysisVars == <<analysisPrompt, analysisImage, analysisResult, analysisLoading>>
renderVars == <<props, rendered>>
envVars == <<API_KEY, keyRequired, mounted, interval, unmounted>>

(***************************************************************************)
(* The inference service, seen from the gateway.                           *)
(* A service response is what one generateContent call produces: it        *)
(* throws (ok = FALSE), or it returns an object whose text getter gives a  *)
(* string or undefined and whose first candidate may carry grounding       *)
(* chunks.                                                                 *)
(***************************************************************************)
Failure == [ok |-> FALSE, text |-> None, groundingChunks |-> None]
Response(text, chunks) == [ok |-> TRUE, text |-> text, groundingChunks |-> chunks]

\* the settlement of a promise
Fulfilled(v) == [status |-> "fulfilled", value |-> Some(v)]
Rejected == [status |-> "rejected", value |-> None]

\* a generateContent call in flight: the operation that issued it, the
\* arguments the operation was called with, the request it built
Call(op, args, request) == [op |-> op, args |-> args, request |-> request]

Operations == {"getMarketUpdates", "generateQuantPrediction",
               "findPrivateEquityDeals", "findResources", "analyzeChartImage"}

(***************************************************************************)
(* services/geminiService (second half of src/App.tsx).                    *)
(***************************************************************************)
\* new GoogleGenAI({ apiKey: process.env.API_KEY }).  Given a key the
\* constructor returns a client.  Given none, what it does is the build's:
\* the SDK's browser client throws, a build that finds its credentials
\* elsewhere returns a client
getClient(key) == IF IsSome(key) \/ ~keyRequired THEN "client" ELSE "throws"

\* the environments of a run: with a key configured the constructor's
\* treatment of a missing key plays no part
EnvInit ==
  /\ API_KEY \in {None, Some("key")}
  /\ keyRequired \in BOOLEAN
  /\ IsSome(API_KEY) => keyRequired

\* 1. getMarketUpdates
getMarketUpdatesRequest ==
  [model |-> "gemini-flash-lite-latest",
   contents |-> Lit("Generate 3 concise, high-impact financial news headlines for a professional trading terminal. No emojis. Format as bullet points.")]

getMarketUpdatesReturn(response) ==
  IF response.ok
  THEN Fulfilled(OrElse(response.text, Lit("Market data unavailable.")))
  ELSE Fulfilled(Lit("SYSTEM ERROR: UNABLE TO FETCH MARKET DATA"))

\* 2. generateQuantPrediction
\* variant of generateQuantPredictionRequest: the budget of the UI label
\* (32k) instead of 32768
generateQuantPredictionRequestBudget32000(query) ==
  [model |-> "gemini-3-pro-preview",
   contents |-> query,
   config |-> [systemInstruction |-> Lit("You are a senior quantitative analyst for a top-tier hedge fund. Provide deep, data-driven analysis. Use professional financial terminology. No emojis. Focus on risk, alpha generation, and macro factors."),
               thinkingConfig |-> [thinkingBudget |-> 32000]]]

generateQuantPredictionRequest(query) ==
  [model |-> "gemini-3-pro-preview",
   contents |-> query,
   config |-> [systemInstruction |-> Lit("You are a senior quantitative analyst for a top-tier hedge fund. Provide deep, data-driven analysis. Use professional financial terminology. No emojis. Focus on risk, alpha generation, and macro factors."),
               thinkingConfig |-> [thinkingBudget |-> 32768]]]

\* variant of generateQuantPredictionReturn: an answer without text is
\* reported like a failed call
generateQuantPredictionReturnStrict(response) ==
  IF response.ok /\ IsSome(response.text) /\ Truthy(response.text[1])
  THEN Fulfilled(response.text[1])
  ELSE Fulfilled(Lit("SYSTEM ERROR: QUANT MODEL CONNECTION FAILED"))

generateQuantPredictionReturn(response) ==
  IF response.ok
  THEN Fulfilled(OrElse(response.text, Lit("Analysis failed.")))
  ELSE Fulfilled(Lit("SYSTEM ERROR: QUANT MODEL CONNECTION FAILED"))

\* 3. findPrivateEquityDeals
findPrivateEquityDealsRequest(sector) ==
  [model |-> "gemini-3-flash-preview",
   contents |-> Lit("Find emerging private companies in the ") \o sector
                \o Lit(" sector suitable for acquisition or venture capital investment. Focus on companies with recent growth news or funding rounds. List them with brief rationales."),
   config |-> [tools |-> <<"googleSearch">>]]

\* variant of findPrivateEquityDealsReturn: response.text ?? "..." (an empty
\* text is kept)
findPrivateEquityDealsReturnNullish(response) ==
  IF response.ok
  THEN Fulfilled(AnalysisResult(IF IsSome(response.text) THEN response.text[1]
                                ELSE Lit("No deals found."),
                                response.groundingChunks))
  ELSE Fulfilled(AnalysisResult(Lit("SYSTEM ERROR: SEARCH TOOL MALFUNCTION"), None))

findPrivateEquityDealsReturn(response) ==
  IF response.ok
  THEN Fulfilled(AnalysisResult(OrElse(response.text, Lit("No deals found.")),
                                response.groundingChunks))
  ELSE Fulfilled(AnalysisResult(Lit("SYSTEM ERROR: SEARCH TOOL MALFUNCTION"), None))

\* 4. findResources
findResourcesRequest(type, lat, lng) ==
  [model |-> "gemini-2.5-flash",
   contents |-> Lit("Locate major ") \o type
                \o Lit(" mines, rigs, or reserves. Provide key details for each location."),
   config |-> [tools |-> <<"googleMaps">>,
               toolConfig |-> IF TruthyNum(lat) /\ TruthyNum(lng)
                              THEN Some([retrievalConfig |->
                                          [latLng |-> [latitude |-> lat[1],
                                                       longitude |-> lng[1]]]])
                              ELSE None]]

\* variant of findResourcesReturn: the catch block rethrows
findResourcesReturnRethrows(response) ==
  IF response.ok
  THEN Fulfilled(AnalysisResult(OrElse(response.text, Lit("No locations found.")),
                                response.groundingChunks))
  ELSE Rejected

findResourcesReturn(response) ==
  IF response.ok
  THEN Fulfilled(AnalysisResult(OrElse(response.text, Lit("No locations found.")),
                                response.groundingChunks))
  ELSE Fulfilled(AnalysisResult(Lit("SYSTEM ERROR: GEOSPATIAL MODULE FAILURE"), None))

\* 5. analyzeChartImage
analyzeChartImageRequest(base64Image, prompt) ==
  [model |-> "gemini-3-pro-preview",
   contents |-> [parts |-> <<[inlineData |-> [mimeType |-> "image/png",
                                              data |-> base64Image]],
                             [text |-> prompt]>>],
   config |-> [systemInstruction |-> Lit("Analyze the provided financial chart or data. Look for technical patterns (Head and Shoulders, Double Top, etc.) and trend lines. Provide a professional assessment.")]]

\* variant of analyzeChartImageReturn: the catch block rethrows
analyzeChartImageReturnRethrows(response) ==
  IF response.ok
  THEN Fulfilled(OrElse(response.text, Lit("Analysis failed.")))
  ELSE Rejected

analyzeChartImageReturn(response) ==
  IF response.ok
  THEN Fulfilled(OrElse(response.text, Lit("Analysis failed.")))
  ELSE Fulfilled(Lit("SYSTEM ERROR: VISION MODEL FAILURE"))

\* what the promise of operation op settles with when its generateContent
\* call is answered by response (the try/catch of the operation)
Return(op, response) ==
  CASE op = "getMarketUpdates" -> getMarketUpdatesReturn(response)
    [] op = "generateQuantPrediction" -> generateQuantPredictionReturn(response)
    [] op = "findPrivateEquityDeals" -> findPrivateEquityDealsReturn(response)
    [] op = "findResources" -> findResourcesReturn(response)
    [] op = "analyzeChartImage" -> analyzeChartImageReturn(response)

\* variant of Issue: the call is issued a second time (a retry)
IssueWithRetry(key, op, args, request) ==
  IF getClient(key) = "throws" THEN << >>
  ELSE <<Call(op, args, request), Call(op, args, request)>>

\* An operation up to its await.  `const ai = getClient()` stands before the
\* try block: when it throws, the promise of the operation rejects and no
\* call is issued.  The result is the list of calls issued (none or one).
Issue(key, op, args, request) ==
  IF getClient(key) = "throws" THEN << >> ELSE <<Call(op, args, request)>>

\* the record kept of a settlement
Settlement(op, args, request, response, outcome) ==
  [op |-> op, args |-> args, request |-> request, response |-> response,
   outcome |-> outcome]

\* the arguments of an operation without parameters
NoArgs == [none |-> TRUE]

\* the sequence s without its i-th element
RemoveAt(s, i) == SubSeq(s, 1, i - 1) \o SubSeq(s, i + 1, Len(s))

(***************************************************************************)
(* Inputs of the environment.                                              *)
(***************************************************************************)
\* texts a user types into a query, sector or resource field
Inputs == {<< >>, <<" ">>, Lit("lithium")}
\* texts a user types into the analysis directive field
Prompts == {<< >>, Lit("double top?")}
\* files a user picks; result is what FileReader.result holds at loadend
\* (a data URL, or null when the read failed)
Files == {[name |-> Lit("chart.png"),
           result |-> Some(<<"data:image/png;base64", ",", "iVBORw0KGgo=">>)],
          [name |-> Lit("broken.png"), result |-> None]}

Web == GroundingChunk(Some(Ref(Some(Lit("https://w.example")), Some(Lit("W")))), None)
Bare == GroundingChunk(None, None)

\* answers of the service to a plain-text operation
PlainResponses ==
  {Failure, Response(None, None), Response(Some(Lit("answer")), None)}
\* answers of the service to a grounded operation
GroundedResponses ==
  {Failure, Response(None, None), Response(Some(Lit("answer")), Some(<<Web, Bare>>))}

Responses(op) ==
  IF op \in {"findPrivateEquityDeals", "findResources"}
  THEN GroundedResponses ELSE PlainResponses

(***************************************************************************)
(* App: system log.                                                        *)
(***************************************************************************)
\* variant of addLogLevel: slice(0, 48) evicts one entry too early
addLogLevelSlice48(prev, message, level) ==
  <<LogEntry(level, message)>> \o Slice(prev, 0, 48)

\* variant of addLogLevel: slice(0, 50) keeps one entry too many
addLogLevelSlice50(prev, message, level) ==
  <<LogEntry(level, message)>> \o Slice(prev, 0, 50)

\* variant of addLog: the new entry is put behind the previous ones
addLogNewestLast(prev, message) ==
  Slice(prev, 0, 49) \o <<LogEntry("INFO", message)>>

\* the state updater of addLog applied to prev; level defaults to INFO
addLogLevel(prev, message, level) ==
  <<LogEntry(level, message)>> \o Slice(prev, 0, 49)
addLog(prev, message) == addLogLevel(prev, message, "INFO")

\* the four messages of the simulated telemetry
msgs == <<Lit("Latency check: 12ms"), Lit("Encryption key rotation"),
          Lit("Data packet received"), Lit("Index sync complete")>>

\* the settlement recorded when an operation is invoked: its promise rejects
\* at once when getClient throws, otherwise nothing has settled yet
SettledAtIssue(key, op, args, prev) ==
  IF getClient(key) = "throws"
  THEN Some(Settlement(op, args, None, None, Rejected))
  ELSE prev

(***************************************************************************)
(* App: initial state (the useState initialisers) and the mount effect.    *)
(***************************************************************************)
AppInit ==
  /\ activeModule = "DASHBOARD"
  /\ quantQuery = << >> /\ quantResult = << >> /\ quantLoading = FALSE
  /\ dealSector = << >> /\ dealResult = None /\ dealLoading = FALSE
  /\ resourceType = << >> /\ resourceResult = None /\ resourceLoading = FALSE
  /\ headlines = Lit("Initializing live feed...")
  /\ analysisPrompt = << >> /\ analysisImage = None
  /\ analysisResult = << >> /\ analysisLoading = FALSE

Init ==
  /\ AppInit
  /\ systemLogs = << >>
  /\ EnvInit
  /\ mounted = FALSE /\ interval = FALSE /\ unmounted = FALSE
  /\ inflight = << >> /\ settled = None /\ reading = << >> /\ events = 0
  /\ props = None /\ rendered = None

\* useEffect(() => {...}, []): two log entries, the market digest request,
\* the interval timer
MountEffect ==
  /\ ~mounted /\ ~unmounted
  /\ mounted' = TRUE
  /\ systemLogs' = addLog(addLog(systemLogs, Lit("System Initialized")),
                          Lit("Connecting to Gemini 2.5 Flash Lite for Market Data..."))
  /\ inflight' = inflight \o Issue(API_KEY, "getMarketUpdates", NoArgs,
                                    getMarketUpdatesRequest)
  /\ settled' = SettledAtIssue(API_KEY, "getMarketUpdates", NoArgs, settled)
  /\ interval' = TRUE
  /\ UNCHANGED <<activeModule, quantVars, dealVars, resourceVars, headlines,
                 analysisVars, API_KEY, keyRequired, unmounted, reading, events,
                 renderVars>>

\* getMarketUpdates().then(news => {...}); React drops the state updates of
\* a component that is no longer mounted
MarketUpdatesSettled(i, response) ==
  /\ inflight[i].op = "getMarketUpdates"
  /\ LET outcome == getMarketUpdatesReturn(response) IN
       /\ inflight' = RemoveAt(inflight, i)
       /\ settled' = Some(Settlement(inflight[i].op, inflight[i].args,
                                     Some(inflight[i].request),
                                     Some(response), outcome))
       /\ IF outcome.status = "fulfilled" /\ ~unmounted
          THEN /\ headlines' = outcome.value[1]
               /\ systemLogs' = addLog(systemLogs, Lit("Market Data Stream Active"))
          ELSE UNCHANGED <<headlines, systemLogs>>
  /\ UNCHANGED <<activeModule, quantVars, dealVars, resourceVars, analysisVars,
                 envVars, reading, events, renderVars>>

\* variant of IntervalTick: a tick also times out a pending quant request
IntervalTickTimeout(logs, k) ==
  /\ interval
  /\ IF logs
     THEN /\ events < MaxEvents
          /\ events' = events + 1
          /\ systemLogs' = addLog(systemLogs, msgs[k])
     ELSE UNCHANGED <<systemLogs, events>>
  /\ quantLoading' = FALSE
  /\ UNCHANGED <<activeModule, quantQuery, quantResult, dealVars, resourceVars,
                 headlines, analysisVars, envVars, inflight, settled, reading,
                 renderVars>>

\* the interval callback (every 4000 ms): with Math.random() > 0.7 it logs
\* msgs[k], otherwise it does nothing
IntervalTick(logs, k) ==
  /\ interval
  /\ IF logs
     THEN /\ events < MaxEvents
          /\ events' = events + 1
          /\ systemLogs' = addLog(systemLogs, msgs[k])
     ELSE UNCHANGED <<systemLogs, events>>
  /\ UNCHANGED <<activeModule, quantVars, dealVars, resourceVars, headlines,
                 analysisVars, envVars, inflight, settled, reading, renderVars>>

\* variant of NavButton: a view switch aborts the requests in flight
NavButtonAborts(id) ==
  /\ mounted
  /\ events < MaxEvents
  /\ events' = events + 1
  /\ activeModule' = id
  /\ inflight' = << >>
  /\ UNCHANGED <<systemLogs, quantVars, dealVars, resourceVars, headlines,
                 analysisVars, envVars, settled, reading, renderVars>>

\* variant of Cleanup: the timer is not cleared
CleanupKeepsTimer ==
  /\ mounted
  /\ events < MaxEvents
  /\ events' = events + 1
  /\ mounted' = FALSE
  /\ unmounted' = TRUE
  /\ UNCHANGED <<activeModule, systemLogs, quantVars, dealVars, resourceVars,
                 headlines, analysisVars, API_KEY, keyRequired, interval, inflight,
                 settled, reading, renderVars>>

\* the cleanup of the mount effect, run when the App is unmounted:
\* clearInterval(interval); no event reaches the App after it
Cleanup ==
  /\ mounted
  /\ events < MaxEvents
  /\ events' = events + 1
  /\ mounted' = FALSE
  /\ interval' = FALSE
  /\ unmounted' = TRUE
  /\ UNCHANGED <<activeModule, systemLogs, quantVars, dealVars, resourceVars,
                 headlines, analysisVars, API_KEY, keyRequired, inflight, settled,
                 reading, renderVars>>

\* NavButton onClick
NavButton(id) ==
  /\ mounted
  /\ events < MaxEvents
  /\ events' = events + 1
  /\ activeModule' = id
  /\ UNCHANGED <<systemLogs, quantVars, dealVars, resourceVars, headlines,
                 analysisVars, envVars, inflight, settled, reading,
                 renderVars>>


(***************************************************************************)
(* App: QUANT_PREDICT view.                                                       *)
(***************************************************************************)
\* variant of setQuantQuery: a request in flight reads the live input
setQuantQueryLive(value) ==
  /\ mounted /\ activeModule = "QUANT_PREDICT"
  /\ events < MaxEvents
  /\ events' = events + 1
  /\ quantQuery' = value
  /\ inflight' = [i \in 1..Len(inflight) |->
                   IF inflight[i].op = "generateQuantPrediction"
                   THEN Call(inflight[i].op, [query |-> value],
                             generateQuantPredictionRequest(value))
                   ELSE inflight[i]]
  /\ UNCHANGED <<activeModule, systemLogs, quantResult, quantLoading, dealVars, resourceVars, analysisVars,
                 headlines, envVars, settled, reading, renderVars>>

\* onChange of the input field (never disabled)
setQuantQuery(value) ==
  /\ mounted /\ activeModule = "QUANT_PREDICT"
  /\ events < MaxEvents
  /\ events' = events + 1
  /\ quantQuery' = value
  /\ UNCHANGED <<activeModule, systemLogs, quantResult, quantLoading, dealVars, resourceVars, analysisVars,
                 headlines, envVars, inflight, settled, reading, renderVars>>

\* variant of quantSubmitDisabled: the button is never disabled
quantSubmitNeverDisabled == FALSE

\* disabled attribute of the submit button
quantSubmitDisabled == quantLoading

\* handleQuantSubmit up to its await
handleQuantSubmit ==
  IF ~Truthy(quantQuery)
  THEN UNCHANGED vars
  ELSE /\ events < MaxEvents
       /\ events' = events + 1
       /\ quantLoading' = TRUE
       /\ systemLogs' = addLog(systemLogs, Lit("Running Quant Model (Gemini 3 Pro - Thinking Mode) for: ") \o quantQuery)
       /\ inflight' = inflight \o Issue(API_KEY, "generateQuantPrediction",
                                         [query |-> quantQuery],
                                         generateQuantPredictionRequest(quantQuery))
       /\ settled' = SettledAtIssue(API_KEY, "generateQuantPrediction",
                                    [query |-> quantQuery], settled)
       /\ UNCHANGED <<activeModule, quantQuery, quantResult, dealVars, resourceVars, analysisVars, headlines,
                      envVars, reading, renderVars>>

\* a submit of the form (click on the submit button or implicit submission):
\* a disabled button submits nothing
QuantSubmit ==
  /\ mounted /\ activeModule = "QUANT_PREDICT"
  /\ IF quantSubmitDisabled THEN UNCHANGED vars ELSE handleQuantSubmit

\* variant of QuantSettled: a result whose query is no longer the one in the
\* input field is discarded as stale
QuantSettledDropsStale(i, response) ==
  /\ inflight[i].op = "generateQuantPrediction"
  /\ LET outcome == generateQuantPredictionReturn(response) IN
       /\ inflight' = RemoveAt(inflight, i)
       /\ settled' = Some(Settlement(inflight[i].op, inflight[i].args,
                                     Some(inflight[i].request),
                                     Some(response), outcome))
       /\ IF outcome.status = "fulfilled" /\ ~unmounted
          THEN /\ quantResult' = IF inflight[i].args.query = quantQuery
                                 THEN outcome.value[1] ELSE quantResult
               /\ quantLoading' = FALSE
               /\ systemLogs' = addLog(systemLogs, Lit("Quant Analysis Complete"))
          ELSE UNCHANGED <<quantResult, quantLoading, systemLogs>>
  /\ UNCHANGED <<activeModule, quantQuery, dealVars, resourceVars, analysisVars, headlines, envVars, reading,
                 events, renderVars>>

\* handleQuantSubmit from its await on: the awaited promise settles; when it
\* rejects the await throws and the rest of the handler does not run
\* (nor has it any effect once the App is unmounted: React drops the state
\* updates of a component that is no longer mounted)
QuantSettled(i, response) ==
  /\ inflight[i].op = "generateQuantPrediction"
  /\ LET outcome == generateQuantPredictionReturn(response) IN
       /\ inflight' = RemoveAt(inflight, i)
       /\ settled' = Some(Settlement(inflight[i].op, inflight[i].args,
                                     Some(inflight[i].request),
                                     Some(response), outcome))
       /\ IF outcome.status = "fulfilled" /\ ~unmounted
          THEN /\ quantResult' = outcome.value[1]
               /\ quantLoading' = FALSE
               /\ systemLogs' = addLog(systemLogs, Lit("Quant Analysis Complete"))
          ELSE UNCHANGED <<quantResult, quantLoading, systemLogs>>
  /\ UNCHANGED <<activeModule, quantQuery, dealVars, resourceVars, analysisVars, headlines, envVars, reading,
                 events, renderVars>>

(***************************************************************************)
(* App: DEAL_FLOW view.                                                       *)
(***************************************************************************)
\* onChange of the input field (never disabled)
setDealSector(value) ==
  /\ mounted /\ activeModule = "DEAL_FLOW"
  /\ events < MaxEvents
  /\ events' = events + 1
  /\ dealSector' = value
  /\ UNCHANGED <<activeModule, systemLogs, dealResult, dealLoading, quantVars, resourceVars, analysisVars,
                 headlines, envVars, inflight, settled, reading, renderVars>>

\* disabled attribute of the submit button
dealSubmitDisabled == dealLoading

\* handleDealSubmit up to its await
handleDealSubmit ==
  IF ~Truthy(dealSector)
  THEN UNCHANGED vars
  ELSE /\ events < MaxEvents
       /\ events' = events + 1
       /\ dealLoading' = TRUE
       /\ systemLogs' = addLog(systemLogs, Lit("Scanning Deal Flow (Gemini 3 Flash + Search) for: ") \o dealSector)
       /\ inflight' = inflight \o Issue(API_KEY, "findPrivateEquityDeals",
                                         [sector |-> dealSector],
                                         findPrivateEquityDealsRequest(dealSector))
       /\ settled' = SettledAtIssue(API_KEY, "findPrivateEquityDeals",
                                    [sector |-> dealSector], settled)
       /\ UNCHANGED <<activeModule, dealSector, dealResult, quantVars, resourceVars, analysisVars, headlines,
                      envVars, reading, renderVars>>

\* a submit of the form (click on the submit button or implicit submission):
\* a disabled button submits nothing
DealSubmit ==
  /\ mounted /\ activeModule = "DEAL_FLOW"
  /\ IF dealSubmitDisabled THEN UNCHANGED vars ELSE handleDealSubmit

\* variant of DealSettled: one loading flag shared by the text Tasks
DealSettledSharedLoading(i, response) ==
  /\ inflight[i].op = "findPrivateEquityDeals"
  /\ LET outcome == findPrivateEquityDealsReturn(response) IN
       /\ inflight' = RemoveAt(inflight, i)
       /\ settled' = Some(Settlement(inflight[i].op, inflight[i].args,
                                     Some(inflight[i].request),
                                     Some(response), outcome))
       /\ IF outcome.status = "fulfilled" /\ ~unmounted
          THEN /\ dealResult' = Some(outcome.value[1])
               /\ dealLoading' = FALSE
               /\ quantLoading' = FALSE
               /\ resourceLoading' = FALSE
               /\ systemLogs' = addLog(systemLogs, Lit("Deal Scan Complete"))
          ELSE UNCHANGED <<dealResult, dealLoading, quantLoading, resourceLoading,
                           systemLogs>>
  /\ UNCHANGED <<activeModule, dealSector, quantQuery, quantResult, resourceType,
                 resourceResult, analysisVars, headlines, envVars, reading,
                 events, renderVars>>

\* handleDealSubmit from its await on: the awaited promise settles; when it
\* rejects the await throws and the rest of the handler does not run
\* (nor has it any effect once the App is unmounted: React drops the state
\* updates of a component that is no longer mounted)
DealSettled(i, response) ==
  /\ inflight[i].op = "findPrivateEquityDeals"
  /\ LET outcome == findPrivateEquityDealsReturn(response) IN
       /\ inflight' = RemoveAt(inflight, i)
       /\ settled' = Some(Settlement(inflight[i].op, inflight[i].args,
                                     Some(inflight[i].request),
                                     Some(response), outcome))
       /\ IF outcome.status = "fulfilled" /\ ~unmounted
          THEN /\ dealResult' = Some(outcome.value[1])
               /\ dealLoading' = FALSE
               /\ systemLogs' = addLog(systemLogs, Lit("Deal Scan Complete"))
          ELSE UNCHANGED <<dealResult, dealLoading, systemLogs>>
  /\ UNCHANGED <<activeModule, dealSector, quantVars, resourceVars, analysisVars, headlines, envVars, reading,
                 events, renderVars>>

(***************************************************************************)
(* App: RESOURCE_MAP view.                                                       *)
(***************************************************************************)
\* onChange of the input field (never disabled)
setResourceType(value) ==
  /\ mounted /\ activeModule = "RESOURCE_MAP"
  /\ events < MaxEvents
  /\ events' = events + 1
  /\ resourceType' = value
  /\ UNCHANGED <<activeModule, systemLogs, resourceResult, resourceLoading, quantVars, dealVars, analysisVars,
                 headlines, envVars, inflight, settled, reading, renderVars>>

\* disabled attribute of the submit button
resourceSubmitDisabled == resourceLoading

\* handleResourceSubmit up to its await
handleResourceSubmit ==
  IF ~Truthy(resourceType)
  THEN UNCHANGED vars
  ELSE /\ events < MaxEvents
       /\ events' = events + 1
       /\ resourceLoading' = TRUE
       /\ systemLogs' = addLog(systemLogs, Lit("Locating Resources (Gemini 2.5 Flash + Maps) for: ") \o resourceType)
       /\ inflight' = inflight \o Issue(API_KEY, "findResources",
                                         [resourceType |-> resourceType, lat |-> None, lng |-> None],
                                         findResourcesRequest(resourceType, None, None))
       /\ settled' = SettledAtIssue(API_KEY, "findResources",
                                    [resourceType |-> resourceType, lat |-> None, lng |-> None], settled)
       /\ UNCHANGED <<activeModule, resourceType, resourceResult, quantVars, dealVars, analysisVars, headlines,
                      envVars, reading, renderVars>>

\* a submit of the form (click on the submit button or implicit submission):
\* a disabled button submits nothing
ResourceSubmit ==
  /\ mounted /\ activeModule = "RESOURCE_MAP"
  /\ IF resourceSubmitDisabled THEN UNCHANGED vars ELSE handleResourceSubmit

\* handleResourceSubmit from its await on: the awaited promise settles; when it
\* rejects the await throws and the rest of the handler does not run
\* (nor has it any effect once the App is unmounted: React drops the state
\* updates of a component that is no longer mounted)
ResourceSettled(i, response) ==
  /\ inflight[i].op = "findResources"
  /\ LET outcome == findResourcesReturn(response) IN
       /\ inflight' = RemoveAt(inflight, i)
       /\ settled' = Some(Settlement(inflight[i].op, inflight[i].args,
                                     Some(inflight[i].request),
                                     Some(response), outcome))
       /\ IF outcome.status = "fulfilled" /\ ~unmounted
          THEN /\ resourceResult' = Some(outcome.value[1])
               /\ resourceLoading' = FALSE
               /\ systemLogs' = addLog(systemLogs, Lit("Geospatial Data Retrieved"))
          ELSE UNCHANGED <<resourceResult, resourceLoading, systemLogs>>
  /\ UNCHANGED <<activeModule, resourceType, quantVars, dealVars, analysisVars, headlines, envVars, reading,
                 events, renderVars>>

(***************************************************************************)
(* App: DATA_LAB view.                                                     *)
(***************************************************************************)
\* onChange of the directive field
setAnalysisPrompt(value) ==
  /\ mounted /\ activeModule = "DATA_LAB"
  /\ events < MaxEvents
  /\ events' = events + 1
  /\ analysisPrompt' = value
  /\ UNCHANGED <<activeModule, systemLogs, analysisImage, analysisResult,
                 analysisLoading, quantVars, dealVars, resourceVars, headlines,
                 envVars, inflight, settled, reading, renderVars>>

\* handleFileUpload: a file was picked and is handed to a FileReader
handleFileUpload(file) ==
  /\ mounted /\ activeModule = "DATA_LAB"
  /\ events < MaxEvents
  /\ events' = events + 1
  /\ reading' = Append(reading, file)
  /\ UNCHANGED <<activeModule, systemLogs, quantVars, dealVars, resourceVars,
                 headlines, analysisVars, envVars, inflight, settled, renderVars>>

\* reader.onloadend (React drops the state updates of a component that is
\* no longer mounted)
onloadend(i) ==
  /\ IF ~unmounted
     THEN /\ analysisImage' = reading[i].result
          /\ systemLogs' = addLog(systemLogs, Lit("Image Loaded: ") \o reading[i].name)
     ELSE UNCHANGED <<analysisImage, systemLogs>>
  /\ reading' = RemoveAt(reading, i)
  /\ UNCHANGED <<activeModule, quantVars, dealVars, resourceVars, headlines,
                 analysisPrompt, analysisResult, analysisLoading, envVars,
                 inflight, settled, events, renderVars>>

\* !analysisImage: null and "" are falsy
NoImage(image) == ~(IsSome(image) /\ Truthy(image[1]))

\* disabled attribute of the Run Vision Model button
analysisSubmitDisabled == analysisLoading \/ NoImage(analysisImage)

\* variant of handleAnalysisSubmit: the data URL is passed with its header
handleAnalysisSubmitKeepsHeader ==
  IF NoImage(analysisImage)
  THEN UNCHANGED vars
  ELSE /\ events < MaxEvents
       /\ events' = events + 1
       /\ analysisLoading' = TRUE
       /\ systemLogs' = addLog(systemLogs, Lit("Analyzing Visual Data (Gemini 3 Pro Vision)..."))
       /\ LET base64Data == Some(analysisImage[1])
              prompt == OrElse(Some(analysisPrompt), Lit("Analyze this financial chart."))
              args == [base64Image |-> base64Data, prompt |-> prompt]
          IN /\ inflight' = inflight \o
                  Issue(API_KEY, "analyzeChartImage", args,
                        analyzeChartImageRequest(base64Data, prompt))
             /\ settled' = SettledAtIssue(API_KEY, "analyzeChartImage", args, settled)
       /\ UNCHANGED <<activeModule, analysisPrompt, analysisImage, analysisResult,
                      quantVars, dealVars, resourceVars, headlines, envVars,
                      reading, renderVars>>

\* handleAnalysisSubmit up to its await
handleAnalysisSubmit ==
  IF NoImage(analysisImage)
  THEN UNCHANGED vars
  ELSE /\ events < MaxEvents
       /\ events' = events + 1
       /\ analysisLoading' = TRUE
       /\ systemLogs' = addLog(systemLogs, Lit("Analyzing Visual Data (Gemini 3 Pro Vision)..."))
       /\ LET base64Data == At(Split(analysisImage[1], ","), 1)
              prompt == OrElse(Some(analysisPrompt), Lit("Analyze this financial chart."))
              args == [base64Image |-> base64Data, prompt |-> prompt]
          IN /\ inflight' = inflight \o
                  Issue(API_KEY, "analyzeChartImage", args,
                        analyzeChartImageRequest(base64Data, prompt))
             /\ settled' = SettledAtIssue(API_KEY, "analyzeChartImage", args, settled)
       /\ UNCHANGED <<activeModule, analysisPrompt, analysisImage, analysisResult,
                      quantVars, dealVars, resourceVars, headlines, envVars,
                      reading, renderVars>>

\* a click on the Run Vision Model button: a disabled button does nothing
AnalysisSubmit ==
  /\ mounted /\ activeModule = "DATA_LAB"
  /\ IF analysisSubmitDisabled THEN UNCHANGED vars ELSE handleAnalysisSubmit

\* handleAnalysisSubmit from its await on (React drops the state updates of
\* a component that is no longer mounted)
AnalysisSettled(i, response) ==
  /\ inflight[i].op = "analyzeChartImage"
  /\ LET outcome == analyzeChartImageReturn(response) IN
       /\ inflight' = RemoveAt(inflight, i)
       /\ settled' = Some(Settlement(inflight[i].op, inflight[i].args,
                                     Some(inflight[i].request),
                                     Some(response), outcome))
       /\ IF outcome.status = "fulfilled" /\ ~unmounted
          THEN /\ analysisResult' = outcome.value[1]
               /\ analysisLoading' = FALSE
               /\ systemLogs' = addLog(systemLogs, Lit("Visual Analysis Complete"))
          ELSE UNCHANGED <<analysisResult, analysisLoading, systemLogs>>
  /\ UNCHANGED <<activeModule, analysisPrompt, analysisImage, quantVars, dealVars,
                 resourceVars, headlines, envVars, reading, events, renderVars>>

(***************************************************************************)
(* The application: every event the App reacts to, its unmounting included. *)
(***************************************************************************)
Next ==
  \/ MountEffect
  \/ \E i \in 1..Len(inflight) : \E r \in Responses(inflight[i].op) :
       MarketUpdatesSettled(i, r)
  \/ \E logs \in BOOLEAN : \E k \in 1..Len(msgs) : IntervalTick(logs, k)
  \/ \E id \in ModuleType : NavButton(id)
  \/ \E v \in Inputs : setQuantQuery(v)
  \/ QuantSubmit
  \/ \E i \in 1..Len(inflight) : \E r \in Responses(inflight[i].op) :
       QuantSettled(i, r)
  \/ \E v \in Inputs : setDealSector(v)
  \/ DealSubmit
  \/ \E i \in 1..Len(inflight) : \E r \in Responses(inflight[i].op) :
       DealSettled(i, r)
  \/ \E v \in Inputs : setResourceType(v)
  \/ ResourceSubmit
  \/ \E i \in 1..Len(inflight) : \E r \in Responses(inflight[i].op) :
       ResourceSettled(i, r)
  \/ \E v \in Prompts : setAnalysisPrompt(v)
  \/ \E f \in Files : handleFileUpload(f)
  \/ \E i \in 1..Len(reading) : onloadend(i)
  \/ AnalysisSubmit
  \/ \E i \in 1..Len(inflight) : \E r \in Responses(inflight[i].op) :
       AnalysisSettled(i, r)
  \/ Cleanup

Spec == Init /\ [][Next]_vars

(***************************************************************************)
(* FairSpec: the application with a service that answers every call: a     *)
(* call in flight is eventually answered, with a result or a failure.  The *)
(* build is one whose constructor requires a key: with a key configured    *)
(* every call is issued, without one none is.  (API_KEY is read only by    *)
(* getClient, so a build that accepts a missing key takes, without a key,  *)
(* the steps taken here with a key.)                                       *)
(***************************************************************************)
FairInit == Init /\ keyRequired

FairSpec ==
  /\ FairInit
  /\ [][Next]_vars
  /\ WF_vars(\E i \in 1..Len(inflight) : \E r \in Responses(inflight[i].op) :
               MarketUpdatesSettled(i, r))
  /\ WF_vars(\E i \in 1..Len(inflight) : \E r \in Responses(inflight[i].op) :
               QuantSettled(i, r))
  /\ WF_vars(\E i \in 1..Len(inflight) : \E r \in Responses(inflight[i].op) :
               DealSettled(i, r))
  /\ WF_vars(\E i \in 1..Len(inflight) : \E r \in Responses(inflight[i].op) :
               ResourceSettled(i, r))
  /\ WF_vars(\E i \in 1..Len(inflight) : \E r \in Responses(inflight[i].op) :
               AnalysisSettled(i, r))

(***************************************************************************)
(* SessionSpec: a session in progress.  The initial state is that of a     *)
(* mounted App whose user has typed "lithium" into the query, sector and   *)
(* resource fields and loaded chart.png in the data lab, which is the view *)
(* displayed; the market digest has not been answered yet.  From there the *)
(* user leaves the inputs as they are and only switches views and          *)
(* submits, while the service answers; no tick of the timer logs.  At some *)
(* point the App may be unmounted, with calls still in flight.             *)
(***************************************************************************)
SessionInit ==
  /\ activeModule = "DATA_LAB"
  /\ quantQuery = Lit("lithium") /\ quantResult = << >> /\ quantLoading = FALSE
  /\ dealSector = Lit("lithium") /\ dealResult = None /\ dealLoading = FALSE
  /\ resourceType = Lit("lithium") /\ resourceResult = None
  /\ resourceLoading = FALSE
  /\ headlines = Lit("Initializing live feed...")
  /\ analysisPrompt = << >>
  /\ analysisImage = Some(<<"data:image/png;base64", ",", "iVBORw0KGgo=">>)
  /\ analysisResult = << >> /\ analysisLoading = FALSE
  /\ systemLogs =
       addLog(addLog(addLog(<< >>, Lit("System Initialized")),
                     Lit("Connecting to Gemini 2.5 Flash Lite for Market Data...")),
              Lit("Image Loaded: ") \o Lit("chart.png"))
  /\ EnvInit
  /\ mounted = TRUE /\ interval = TRUE /\ unmounted = FALSE
  /\ inflight = Issue(API_KEY, "getMarketUpdates", NoArgs, getMarketUpdatesRequest)
  /\ settled = SettledAtIssue(API_KEY, "getMarketUpdates", NoArgs, None)
  /\ reading = << >> /\ events = 0
  /\ props = None /\ rendered = None

SessionNext ==
  \/ \E i \in 1..Len(inflight) : \E r \in Responses(inflight[i].op) :
       MarketUpdatesSettled(i, r)
  \/ \E id \in ModuleType : NavButton(id)
  \/ QuantSubmit
  \/ \E i \in 1..Len(inflight) : \E r \in Responses(inflight[i].op) :
       QuantSettled(i, r)
  \/ DealSubmit
  \/ \E i \in 1..Len(inflight) : \E r \in Responses(inflight[i].op) :
       DealSettled(i, r)
  \/ ResourceSubmit
  \/ \E i \in 1..Len(inflight) : \E r \in Responses(inflight[i].op) :
       ResourceSettled(i, r)
  \/ AnalysisSubmit
  \/ \E i \in 1..Len(inflight) : \E r \in Responses(inflight[i].op) :
       AnalysisSettled(i, r)
  \/ Cleanup

SessionSpec == SessionInit /\ [][SessionNext]_vars

(***************************************************************************)
(* LifecycleSpec: the lifecycle of an App whose user only switches views   *)
(* and picks files: it is mounted, the market digest is answered, the      *)
(* timer ticks, files are read, and at some point the App is unmounted,    *)
(* with the digest or a read possibly still pending.                       *)
(***************************************************************************)
LifecycleNext ==
  \/ MountEffect
  \/ \E i \in 1..Len(inflight) : \E r \in Responses(inflight[i].op) :
       MarketUpdatesSettled(i, r)
  \/ \E logs \in BOOLEAN : \E k \in 1..Len(msgs) : IntervalTick(logs, k)
  \/ \E id \in ModuleType : NavButton(id)
  \/ \E f \in Files : handleFileUpload(f)
  \/ \E i \in 1..Len(reading) : onloadend(i)
  \/ Cleanup

LifecycleSpec == Init /\ [][LifecycleNext]_vars

(***************************************************************************)
(* LogSpec: the system log at any fill level.  The initial states are the  *)
(* states of a mounted App (with a key configured) whose log has received  *)
(* n appends: the two of the mount effect, then n - 2 logging ticks of the *)
(* interval timer, for the n that leave the log nearly full, full, or full *)
(* with entries evicted.  The steps are those of an App left on the        *)
(* dashboard.                                                              *)
(***************************************************************************)
PrefixMessage(n) ==
  IF n = 1 THEN Lit("System Initialized")
  ELSE IF n = 2 THEN Lit("Connecting to Gemini 2.5 Flash Lite for Market Data...")
  ELSE msgs[((n - 3) % Len(msgs)) + 1]

\* the log after appends 1..n, newest first: what n applications of addLog
\* to the empty log leave
PrefixLog(n) ==
  [i \in 1..Min(n, 50) |-> LogEntry("INFO", PrefixMessage(n - i + 1))]

LogInit ==
  /\ AppInit
  /\ \E n \in 45..MaxPrefix : systemLogs = PrefixLog(n)
  /\ API_KEY = Some("key") /\ keyRequired = TRUE
  /\ mounted = TRUE /\ interval = TRUE /\ unmounted = FALSE
  /\ inflight = Issue(API_KEY, "getMarketUpdates", NoArgs, getMarketUpdatesRequest)
  /\ settled = None /\ reading = << >> /\ events = 0
  /\ props = None /\ rendered = None

LogNext ==
  \/ \E i \in 1..Len(inflight) : \E r \in Responses(inflight[i].op) :
       MarketUpdatesSettled(i, r)
  \/ \E logs \in BOOLEAN : \E k \in 1..Len(msgs) : IntervalTick(logs, k)

LogSpec == LogInit /\ [][LogNext]_vars

(***************************************************************************)
(* GatewaySpec: the five exported operations called directly, with any     *)
(* arguments their signatures admit, against a service that fails or       *)
(* answers.                                                                *)
(***************************************************************************)
\* optional coordinates of findResources
Lats == {None, Some(0), Some(10)}
Lngs == {None, Some(0), Some(20)}

\* a data URL payload, or undefined (split(',')[1] of a string without comma)
Payloads == {None, Some(Lit("iVBORw0KGgo="))}

\* the arguments tried for each operation
Arguments(op) ==
  CASE op = "getMarketUpdates" -> {NoArgs}
    [] op = "generateQuantPrediction" -> {[query |-> q] : q \in Inputs}
    [] op = "findPrivateEquityDeals" -> {[sector |-> x] : x \in Inputs}
    [] op = "findResources" ->
         {[resourceType |-> Lit("lithium"), lat |-> lat, lng |-> lng] :
            lat \in Lats, lng \in Lngs}
    [] op = "analyzeChartImage" ->
         {[base64Image |-> b, prompt |-> Lit("Analyze this financial chart.")] :
            b \in Payloads}

\* the request operation op builds from arguments a
Request(op, a) ==
  CASE op = "getMarketUpdates" -> getMarketUpdatesRequest
    [] op = "generateQuantPrediction" -> generateQuantPredictionRequest(a.query)
    [] op = "findPrivateEquityDeals" -> findPrivateEquityDealsRequest(a.sector)
    [] op = "findResources" -> findResourcesRequest(a.resourceType, a.lat, a.lng)
    [] op = "analyzeChartImage" -> analyzeChartImageRequest(a.base64Image, a.prompt)

Maps == GroundingChunk(None, Some(Ref(Some(Lit("https://m.example")), None)))

\* answers of the service tried in GatewaySpec
GatewayResponses(op) ==
  Responses(op) \cup {Response(Some(<< >>), None)} \cup
  (IF op \in {"findPrivateEquityDeals", "findResources"}
   THEN {Response(None, Some(<<Maps>>)), Response(Some(Lit("answer")), Some(<< >>))}
   ELSE {})

GatewayInit ==
  /\ AppInit
  /\ systemLogs = << >>
  /\ EnvInit
  /\ mounted = FALSE /\ interval = FALSE /\ unmounted = FALSE
  /\ inflight = << >> /\ settled = None /\ reading = << >> /\ events = 0
  /\ props = None /\ rendered = None

\* a caller invokes operation op with arguments a
Invoke(op, a) ==
  /\ Len(inflight) < MaxPending
  /\ inflight' = inflight \o Issue(API_KEY, op, a, Request(op, a))
  /\ settled' = SettledAtIssue(API_KEY, op, a, settled)
  /\ UNCHANGED <<activeModule, systemLogs, quantVars, dealVars, resourceVars,
                 headlines, analysisVars, envVars, reading, events, renderVars>>

\* the service answers call i and the promise of the operation settles
Answer(i, response) ==
  /\ inflight' = RemoveAt(inflight, i)
  /\ settled' = Some(Settlement(inflight[i].op, inflight[i].args,
                                Some(inflight[i].request), Some(response),
                                Return(inflight[i].op, response)))
  /\ UNCHANGED <<activeModule, systemLogs, quantVars, dealVars, resourceVars,
                 headlines, analysisVars, envVars, reading, events, renderVars>>

GatewayNext ==
  \/ \E op \in Operations : \E a \in Arguments(op) : Invoke(op, a)
  \/ \E i \in 1..Len(inflight) : \E r \in GatewayResponses(inflight[i].op) :
       Answer(i, r)

GatewaySpec == GatewayInit /\ [][GatewayNext]_vars

(***************************************************************************)
(* components/TerminalOutput (src/unnamed/part_000).                       *)
(***************************************************************************)
\* o?.f for an optional record o whose property f is optional
Prop(o, f) == IF IsSome(o) THEN o[1][f] ELSE None

\* a || b for optional strings a and b
Or(a, b) == IF IsSome(a) /\ Truthy(a[1]) THEN a ELSE b

\* variant of SourceItem: only the web reference supplies the uri
SourceItemWebOnly(chunk, i) ==
  LET uri == Prop(chunk.web, "uri")
      title == OrElse(Or(Prop(chunk.web, "title"), Prop(chunk.maps, "title")),
                      Lit("Unknown Source"))
  IN IF ~(IsSome(uri) /\ Truthy(uri[1]))
     THEN None
     ELSE Some([key |-> i, href |-> uri[1], number |-> i + 1, title |-> title])

\* the callback of groundingChunks.map: the <li> of chunk number i (0-based),
\* or null
SourceItem(chunk, i) ==
  LET uri == Or(Prop(chunk.web, "uri"), Prop(chunk.maps, "uri"))
      title == OrElse(Or(Prop(chunk.web, "title"), Prop(chunk.maps, "title")),
                      Lit("Unknown Source"))
  IN IF ~(IsSome(uri) /\ Truthy(uri[1]))
     THEN None
     ELSE Some([key |-> i, href |-> uri[1], number |-> i + 1, title |-> title])

\* what the component renders for props p: the processing banner while
\* loading; otherwise the content and, for a non-empty chunk list, the
\* Source References list
TerminalOutput(p) ==
  IF p.loading
  THEN [processing |-> TRUE, content |-> None, sources |-> None]
  ELSE [processing |-> FALSE,
        content |-> Some(p.content),
        sources |-> IF IsSome(p.groundingChunks) /\ Len(p.groundingChunks[1]) > 0
                    THEN Some([i \in 1..Len(p.groundingChunks[1]) |->
                                 SourceItem(p.groundingChunks[1][i], i - 1)])
                    ELSE None]

\* the list items on screen: React renders no element for a null child
RECURSIVE Shown(_)
Shown(items) ==
  IF items = << >> THEN << >>
  ELSE IF IsSome(Head(items)) THEN <<Head(items)[1]>> \o Shown(Tail(items))
  ELSE Shown(Tail(items))

(***************************************************************************)
(* RenderSpec: one TerminalOutput instance given any props and rendered.   *)
(***************************************************************************)
Refs == {None,
         Some(Ref(Some(Lit("u")), Some(Lit("t")))),
         Some(Ref(Some(Lit("u")), None)),
         Some(Ref(None, Some(Lit("t"))))}

\* a reference as the web or the maps property of a chunk: its uri and title
\* say where they come from
Tagged(ref, tag) ==
  IF ref = None THEN None
  ELSE Some(Ref(IF IsSome(ref[1].uri) THEN Some(Lit(tag) \o ref[1].uri[1]) ELSE None,
                IF IsSome(ref[1].title) THEN Some(Lit(tag) \o ref[1].title[1]) ELSE None))

Chunks == {GroundingChunk(Tagged(w, "web:"), Tagged(m, "maps:")) : w \in Refs, m \in Refs}

ChunkLists == UNION {[1..n -> Chunks] : n \in 0..MaxChunks}

RenderInit ==
  /\ AppInit
  /\ systemLogs = << >>
  /\ API_KEY = Some("key") /\ keyRequired = TRUE
  /\ mounted = FALSE /\ interval = FALSE /\ unmounted = FALSE
  /\ inflight = << >> /\ settled = None /\ reading = << >> /\ events = 0
  /\ \E loading \in BOOLEAN : \E chunks \in {None} \cup {Some(l) : l \in ChunkLists} :
       props = Some([title |-> Lit("DEAL_MEMO"), content |-> Lit("answer"),
                     loading |-> loading, groundingChunks |-> chunks])
  /\ rendered = None

Render ==
  /\ IsSome(props)
  /\ rendered' = Some(TerminalOutput(props[1]))
  /\ UNCHANGED <<activeModule, systemLogs, quantVars, dealVars, resourceVars,
                 headlines, analysisVars, envVars, inflight, settled, reading,
                 events, props>>

RenderNext == Render

RenderSpec == RenderInit /\ [][RenderNext]_vars

(***************************************************************************)
(* Vocabulary of the properties.                                           *)
(***************************************************************************)
Grounded == {"findPrivateEquityDeals", "findResources"}

\* a string that is empty or consists of whitespace only
Whitespace == {" ", "\t", "\n"}
IsBlank(s) == \A i \in 1..Len(s) : s[i] \in Whitespace

\* the documented sentinel text of each operation
SentinelText(op) ==
  CASE op = "getMarketUpdates" -> Lit("SYSTEM ERROR: UNABLE TO FETCH MARKET DATA")
    [] op = "generateQuantPrediction" -> Lit("SYSTEM ERROR: QUANT MODEL CONNECTION FAILED")
    [] op = "findPrivateEquityDeals" -> Lit("SYSTEM ERROR: SEARCH TOOL MALFUNCTION")
    [] op = "findResources" -> Lit("SYSTEM ERROR: GEOSPATIAL MODULE FAILURE")
    [] op = "analyzeChartImage" -> Lit("SYSTEM ERROR: VISION MODEL FAILURE")

\* the sentinel value: the text, or an AnalysisResult with the text and no
\* citations
SentinelValue(op) ==
  IF op \in Grounded THEN AnalysisResult(SentinelText(op), None) ELSE SentinelText(op)

\* the text each operation substitutes for an answer without text
FallbackText(op) ==
  CASE op = "getMarketUpdates" -> Lit("Market data unavailable.")
    [] op = "generateQuantPrediction" -> Lit("Analysis failed.")
    [] op = "findPrivateEquityDeals" -> Lit("No deals found.")
    [] op = "findResources" -> Lit("No locations found.")
    [] op = "analyzeChartImage" -> Lit("Analysis failed.")

\* the last settlement is that of a call the service answered
Answered == IsSome(settled) /\ IsSome(settled[1].response)

\* the answer of the service has no text (undefined or "")
LacksText(response) ==
  response.ok /\ ~(IsSome(response.text) /\ Truthy(response.text[1]))

\* number of calls of operation op in flight
CallsOf(op) == Cardinality({i \in 1..Len(inflight) : inflight[i].op = op})

\* steps: a submit that passes the disabled control and the validation
ValidQuantSubmit == QuantSubmit /\ ~quantSubmitDisabled /\ Truthy(quantQuery)
ValidDealSubmit == DealSubmit /\ ~dealSubmitDisabled /\ Truthy(dealSector)
ValidResourceSubmit == ResourceSubmit /\ ~resourceSubmitDisabled /\ Truthy(resourceType)
ValidAnalysisSubmit == AnalysisSubmit /\ ~analysisSubmitDisabled

\* steps: the promise of the Task's gateway operation settles (when the
\* service answers, or at the invocation when the client cannot be made)
QuantSettlement ==
  \/ \E i \in 1..Len(inflight) : \E r \in Responses(inflight[i].op) : QuantSettled(i, r)
  \/ ValidQuantSubmit /\ getClient(API_KEY) = "throws"
DealSettlement ==
  \/ \E i \in 1..Len(inflight) : \E r \in Responses(inflight[i].op) : DealSettled(i, r)
  \/ ValidDealSubmit /\ getClient(API_KEY) = "throws"
ResourceSettlement ==
  \/ \E i \in 1..Len(inflight) : \E r \in Responses(inflight[i].op) : ResourceSettled(i, r)
  \/ ValidResourceSubmit /\ getClient(API_KEY) = "throws"
AnalysisSettlement ==
  \/ \E i \in 1..Len(inflight) : \E r \in Responses(inflight[i].op) : AnalysisSettled(i, r)
  \/ ValidAnalysisSubmit /\ getClient(API_KEY) = "throws"

(***************************************************************************)
(* C1 (GatewaySpec).  Whenever the generateContent call of an operation    *)
(* fails, the promise of the operation is fulfilled, never rejected, with  *)
(* the operation's sentinel: the fixed SYSTEM ERROR string for the three   *)
(* plain-text operations, an AnalysisResult with that text and without     *)
(* citations for the two grounded ones.                                    *)
(***************************************************************************)
C1_FailureYieldsSentinel ==
  (Answered /\ ~settled[1].response[1].ok)
    => settled[1].outcome = Fulfilled(SentinelValue(settled[1].op))

\* the call of a grounded operation has failed and its promise is fulfilled
C1_Witness ==
  /\ Answered
  /\ settled[1].op = "findResources"
  /\ ~settled[1].response[1].ok
  /\ settled[1].outcome.status = "fulfilled"

(***************************************************************************)
(* C2 (Spec).  In every reachable state, the loading flag of each of the   *)
(* four user-triggered Tasks is true if and only if a request of that Task *)
(* is in flight.                                                           *)
(***************************************************************************)
C2_LoadingIffInFlight ==
  /\ quantLoading <=> CallsOf("generateQuantPrediction") > 0
  /\ dealLoading <=> CallsOf("findPrivateEquityDeals") > 0
  /\ resourceLoading <=> CallsOf("findResources") > 0
  /\ analysisLoading <=> CallsOf("analyzeChartImage") > 0

(***************************************************************************)
(* C3 (Spec).  At most one request of each user-triggered Task is in       *)
(* flight at any time, and a submit issued while the Task's loading flag   *)
(* is true changes nothing: no further call, no log entry, no state        *)
(* change.                                                                 *)
(***************************************************************************)
C3_OneInFlightPerTask ==
  /\ [](\A op \in Operations \ {"getMarketUpdates"} : CallsOf(op) <= 1)
  /\ [][/\ (quantLoading /\ QuantSubmit) => UNCHANGED vars
        /\ (dealLoading /\ DealSubmit) => UNCHANGED vars
        /\ (resourceLoading /\ ResourceSubmit) => UNCHANGED vars
        /\ (analysisLoading /\ AnalysisSubmit) => UNCHANGED vars]_vars

\* a request is in flight, its form is on screen with a valid input, and a
\* further submit would still be within the bound
C3_Witness ==
  /\ quantLoading
  /\ CallsOf("generateQuantPrediction") = 1
  /\ activeModule = "QUANT_PREDICT"
  /\ Truthy(quantQuery)
  /\ events < MaxEvents

(***************************************************************************)
(* C4 (Spec).  A submit whose required input is empty or only whitespace   *)
(* (no image, for the image analysis) changes no state and issues no       *)
(* call.                                                                   *)
(***************************************************************************)
C4_BlankSubmitChangesNothing ==
  [][/\ (QuantSubmit /\ IsBlank(quantQuery)) => UNCHANGED vars
     /\ (DealSubmit /\ IsBlank(dealSector)) => UNCHANGED vars
     /\ (ResourceSubmit /\ IsBlank(resourceType)) => UNCHANGED vars
     /\ (AnalysisSubmit /\ NoImage(analysisImage)) => UNCHANGED vars]_vars

(***************************************************************************)
(* C5 (Spec).  For every Task the loading flag goes from false to true in  *)
(* exactly the steps that are a validated submit, goes from true to false  *)
(* only in a step in which the Task's request settles, and is false after  *)
(* every step in which the Task's request settles.                         *)
(***************************************************************************)
C5_LoadingFollowsSubmitAndSettlement ==
  [][/\ (~quantLoading /\ quantLoading') <=> ValidQuantSubmit
     /\ (quantLoading /\ ~quantLoading') => QuantSettlement
     /\ QuantSettlement => ~quantLoading'
     /\ (~dealLoading /\ dealLoading') <=> ValidDealSubmit
     /\ (dealLoading /\ ~dealLoading') => DealSettlement
     /\ DealSettlement => ~dealLoading'
     /\ (~resourceLoading /\ resourceLoading') <=> ValidResourceSubmit
     /\ (resourceLoading /\ ~resourceLoading') => ResourceSettlement
     /\ ResourceSettlement => ~resourceLoading'
     /\ (~analysisLoading /\ analysisLoading') <=> ValidAnalysisSubmit
     /\ (analysisLoading /\ ~analysisLoading') => AnalysisSettlement
     /\ AnalysisSettlement => ~analysisLoading']_vars

(***************************************************************************)
(* C6 (LogSpec).  The log never holds more than 50 entries, and every      *)
(* append puts the new entry first and keeps the previous entries behind   *)
(* it in their order: on a log of 50 the result has exactly 50 entries,    *)
(* the previous first 49 at positions 2..50, the previous oldest dropped.  *)
(***************************************************************************)
\* this step appended an INFO entry with the given message
Appended(message) ==
  /\ Len(systemLogs') = Min(Len(systemLogs) + 1, 50)
  /\ systemLogs'[1] = LogEntry("INFO", message)
  /\ \A j \in 2..Len(systemLogs') : systemLogs'[j] = systemLogs[j - 1]

C6_LogCappedAt50 ==
  /\ [](Len(systemLogs) <= 50)
  /\ [][/\ \A k \in 1..Len(msgs) : IntervalTick(TRUE, k) => Appended(msgs[k])
        /\ \A i \in 1..Len(inflight) : \A r \in Responses(inflight[i].op) :
             MarketUpdatesSettled(i, r) => Appended(Lit("Market Data Stream Active"))]_vars

\* the newest entry was appended to a log that already held 50 entries: the
\* log is full, the entry of the market data settlement is first, and the
\* entry that would be last had it been the 50th append is gone
C6_Witness ==
  /\ Len(systemLogs) = 50
  /\ systemLogs[1].message = Lit("Market Data Stream Active")
  /\ systemLogs[50].message # Lit("System Initialized")

(***************************************************************************)
(* C7 (RenderSpec).  The citation list on screen holds exactly the chunks  *)
(* that carry a web uri or a maps uri, in their order, each with a uri of  *)
(* its chunk and with the chunk's title or, when the chunk has none, the   *)
(* placeholder "Unknown Source"; for [map-only, web-only, neither] it has  *)
(* exactly two entries.                                                    *)
(***************************************************************************)
\* the uris and titles a chunk carries
UrisOf(chunk) ==
  {r[1].uri[1] : r \in {x \in {chunk.web, chunk.maps} :
                          IsSome(x) /\ IsSome(x[1].uri) /\ Truthy(x[1].uri[1])}}
TitlesOf(chunk) ==
  {r[1].title[1] : r \in {x \in {chunk.web, chunk.maps} :
                            IsSome(x) /\ IsSome(x[1].title) /\ Truthy(x[1].title[1])}}

MapOnly == GroundingChunk(None, Some(Ref(Some(<<"maps:", "u">>), None)))
WebOnly == GroundingChunk(Some(Ref(Some(<<"web:", "u">>), Some(<<"web:", "t">>))), None)
Neither == GroundingChunk(None, None)

\* the citation list on screen after a render that was not a loading render
CitationList ==
  IF IsSome(rendered[1].sources) THEN Shown(rendered[1].sources[1]) ELSE << >>

C7_CitationsFiltered ==
  (IsSome(rendered) /\ ~rendered[1].processing /\ IsSome(props[1].groundingChunks)) =>
    LET chunks == props[1].groundingChunks[1]
        list == CitationList
        kept == {j \in 1..Len(chunks) : UrisOf(chunks[j]) # {}}
    IN /\ Len(list) = Cardinality(kept)
       /\ \A k \in 1..Len(list) :
            /\ list[k].number \in kept
            /\ k > 1 => list[k - 1].number < list[k].number
            /\ Truthy(list[k].href)
            /\ list[k].href \in UrisOf(chunks[list[k].number])
            /\ IF TitlesOf(chunks[list[k].number]) = {}
               THEN list[k].title = Lit("Unknown Source")
               ELSE list[k].title \in TitlesOf(chunks[list[k].number])
       /\ chunks = <<MapOnly, WebOnly, Neither>> => Len(list) = 2

\* [map-only, web-only, neither] was rendered: two citations, the map one
\* first and with the placeholder title
C7_Witness ==
  /\ IsSome(rendered) /\ ~rendered[1].processing
  /\ props[1].groundingChunks = Some(<<MapOnly, WebOnly, Neither>>)
  /\ Len(CitationList) = 2
  /\ CitationList[1].href = <<"maps:", "u">>
  /\ CitationList[1].title = Lit("Unknown Source")
  /\ CitationList[2].href = <<"web:", "u">>
  /\ CitationList[2].title = <<"web:", "t">>

(***************************************************************************)
(* C8 (GatewaySpec).  As claimed: an answer of the service without text    *)
(* (missing or empty response.text) yields, for each of the five           *)
(* operations, the sentinel that a failure of the call yields.             *)
(***************************************************************************)
C8_MissingTextYieldsSentinel ==
  (Answered /\ LacksText(settled[1].response[1]))
    => settled[1].outcome = Fulfilled(SentinelValue(settled[1].op))

(***************************************************************************)
(* C8 as amended (GatewaySpec).  An answer without text is not treated as  *)
(* a failed call: the promise is fulfilled with the operation's own        *)
(* fallback text, which differs from its sentinel, and a grounded          *)
(* operation keeps the grounding chunks of the answer.                     *)
(***************************************************************************)
C8_MissingTextYieldsFallback ==
  (Answered /\ LacksText(settled[1].response[1])) =>
    LET op == settled[1].op
        outcome == settled[1].outcome
    IN /\ outcome.status = "fulfilled"
       /\ FallbackText(op) # SentinelText(op)
       /\ IF op \in Grounded
          THEN outcome.value[1] =
                 AnalysisResult(FallbackText(op), settled[1].response[1].groundingChunks)
          ELSE outcome.value[1] = FallbackText(op)

\* the service answered a quant prediction without text
C8_Witness ==
  /\ Answered
  /\ settled[1].op = "generateQuantPrediction"
  /\ LacksText(settled[1].response[1])
  /\ settled[1].outcome = Fulfilled(Lit("Analysis failed."))

(***************************************************************************)
(* C9 (GatewaySpec).  The request of findResources carries the location    *)
(* constraint (lat, lng) whenever both lat and lng are supplied, and no    *)
(* location constraint otherwise.                                          *)
(***************************************************************************)
C9_LocationConstraint ==
  \A i \in 1..Len(inflight) :
    inflight[i].op = "findResources" =>
      LET a == inflight[i].args
          toolConfig == inflight[i].request.config.toolConfig
      IN IF IsSome(a.lat) /\ IsSome(a.lng)
         THEN toolConfig = Some([retrievalConfig |->
                                   [latLng |-> [latitude |-> a.lat[1],
                                                longitude |-> a.lng[1]]]])
         ELSE toolConfig = None

(***************************************************************************)
(* C10 (Spec).  As claimed: a QuantPrediction submit with a non-empty query invokes    *)
(* the gateway with that query, and the request it issues has the query    *)
(* as contents and a thinking budget of 32768; when the service answers    *)
(* with a text, the settlement step leaves quantResult equal to that text  *)
(* and quantLoading false.                                                 *)
(***************************************************************************)
C10_QuantScenario ==
  [][/\ (ValidQuantSubmit /\ getClient(API_KEY) = "throws") =>
          /\ IsSome(settled')
          /\ settled'[1].op = "generateQuantPrediction"
          /\ settled'[1].args.query = quantQuery
     /\ (ValidQuantSubmit /\ getClient(API_KEY) = "client") =>
          /\ Len(inflight') = Len(inflight) + 1
          /\ LET c == inflight'[Len(inflight')]
             IN /\ c.op = "generateQuantPrediction"
                /\ c.args.query = quantQuery
                /\ c.request.contents = quantQuery
                /\ c.request.config.thinkingConfig.thinkingBudget = 32768
     /\ \A i \in 1..Len(inflight) : \A r \in Responses(inflight[i].op) :
          (QuantSettled(i, r) /\ r.ok /\ ~LacksText(r)) =>
            /\ quantResult' = r.text[1]
            /\ ~quantLoading']_vars

(***************************************************************************)
(* C10 (Spec), amended.  As above for the submit.  When the service        *)
(* answers with a text while the App is mounted, the settlement step       *)
(* leaves quantResult equal to that text and quantLoading false; an answer *)
(* that arrives after the App was unmounted changes neither.               *)
(***************************************************************************)
C10_QuantScenarioWhileMounted ==
  [][/\ (ValidQuantSubmit /\ getClient(API_KEY) = "throws") =>
          /\ IsSome(settled')
          /\ settled'[1].op = "generateQuantPrediction"
          /\ settled'[1].args.query = quantQuery
     /\ (ValidQuantSubmit /\ getClient(API_KEY) = "client") =>
          /\ Len(inflight') = Len(inflight) + 1
          /\ LET c == inflight'[Len(inflight')]
             IN /\ c.op = "generateQuantPrediction"
                /\ c.args.query = quantQuery
                /\ c.request.contents = quantQuery
                /\ c.request.config.thinkingConfig.thinkingBudget = 32768
     /\ \A i \in 1..Len(inflight) : \A r \in Responses(inflight[i].op) :
          (QuantSettled(i, r) /\ r.ok /\ ~LacksText(r)) =>
            IF unmounted
            THEN UNCHANGED <<quantResult, quantLoading>>
            ELSE quantResult' = r.text[1] /\ ~quantLoading']_vars

\* a quant request for "lithium" was answered with a text, which is now the
\* result, and the Task is no longer loading
C10_Witness ==
  /\ Answered
  /\ settled[1].op = "generateQuantPrediction"
  /\ settled[1].request[1].contents = Lit("lithium")
  /\ settled[1].request[1].config.thinkingConfig.thinkingBudget = 32768
  /\ settled[1].response[1] = Response(Some(Lit("answer")), None)
  /\ quantResult = Lit("answer")
  /\ ~quantLoading

(***************************************************************************)
(* Steps in which the App invokes a gateway operation, and what a step     *)
(* does to the calls in flight.                                            *)
(***************************************************************************)
\* this step issued exactly one call, of operation op
IssuedOne(op) ==
  /\ Len(inflight') = Len(inflight) + 1
  /\ SubSeq(inflight', 1, Len(inflight)) = inflight
  /\ inflight'[Len(inflight')].op = op

\* this step took exactly one call, of operation op, out of flight and
\* issued none
CompletedOne(op) ==
  \E i \in 1..Len(inflight) :
    /\ inflight[i].op = op
    /\ inflight' = RemoveAt(inflight, i)

\* steps: the App invokes operation op
Invocation(op) ==
  CASE op = "getMarketUpdates" -> MountEffect
    [] op = "generateQuantPrediction" -> ValidQuantSubmit
    [] op = "findPrivateEquityDeals" -> ValidDealSubmit
    [] op = "findResources" -> ValidResourceSubmit
    [] op = "analyzeChartImage" -> ValidAnalysisSubmit

\* steps: the service answers a call of operation op
ServiceAnswer(op) ==
  \E i \in 1..Len(inflight) : \E r \in Responses(inflight[i].op) :
    CASE op = "getMarketUpdates" -> MarketUpdatesSettled(i, r)
      [] op = "generateQuantPrediction" -> QuantSettled(i, r)
      [] op = "findPrivateEquityDeals" -> DealSettled(i, r)
      [] op = "findResources" -> ResourceSettled(i, r)
      [] op = "analyzeChartImage" -> AnalysisSettled(i, r)

(***************************************************************************)
(* C11 (Spec).  As claimed: every invocation of a gateway operation (the   *)
(* mount effect, a validated submit) issues exactly one call to the        *)
(* service, and the answer to a call, success or failure, issues no        *)
(* further call.                                                           *)
(***************************************************************************)
C11_ExactlyOneCallPerInvocation ==
  [][\A op \in Operations :
       /\ Invocation(op) => IssuedOne(op)
       /\ ServiceAnswer(op) => CompletedOne(op)]_vars

(***************************************************************************)
(* C11 as amended (Spec).  An invocation issues exactly one call when the  *)
(* service client can be made and none when getClient throws; the answer   *)
(* to a call, success or failure, takes that call out of flight and issues *)
(* no further call; no other step issues a call.                           *)
(***************************************************************************)
C11_AtMostOneCallPerInvocation ==
  [][/\ \A op \in Operations :
          /\ Invocation(op) =>
               IF getClient(API_KEY) = "client"
               THEN IssuedOne(op) ELSE inflight' = inflight
          /\ ServiceAnswer(op) => CompletedOne(op)
     /\ inflight' # inflight =>
          \E op \in Operations : Invocation(op) \/ ServiceAnswer(op)]_vars

\* the one call of a validated quant submit has failed, its sentinel is the
\* result, and no call of the operation is in flight
C11_Witness ==
  /\ Answered
  /\ settled[1].op = "generateQuantPrediction"
  /\ ~settled[1].response[1].ok
  /\ quantResult = SentinelText("generateQuantPrediction")
  /\ CallsOf("generateQuantPrediction") = 0

(***************************************************************************)
(* C12 (Spec).  As claimed: every step leaves the log as it is or puts new entries in  *)
(* front of it, keeping all previous entries behind them in the order they *)
(* had (the log stays below its capacity in Spec; eviction at capacity is  *)
(* C6).  No append is lost: the mount effect puts its two entries in       *)
(* front, the later one first; a validated submit, the answer to a call, a *)
(* finished file read and a logging tick of the timer each put exactly one *)
(* entry in front, in whatever order these steps interleave.               *)
(***************************************************************************)
\* this step put k new entries in front of the log and kept the previous
\* entries, in their order, behind them
Shifted(k) ==
  /\ Len(systemLogs') = Min(Len(systemLogs) + k, 50)
  /\ \A j \in (k + 1)..Len(systemLogs') : systemLogs'[j] = systemLogs[j - k]

C12_LogKeepsCreationOrder ==
  [][/\ \E k \in 0..2 : Shifted(k)
     /\ MountEffect =>
          /\ Shifted(2)
          /\ systemLogs'[1] = LogEntry("INFO", Lit("Connecting to Gemini 2.5 Flash Lite for Market Data..."))
          /\ systemLogs'[2] = LogEntry("INFO", Lit("System Initialized"))
     /\ \A op \in Operations \ {"getMarketUpdates"} : Invocation(op) => Shifted(1)
     /\ \A op \in Operations : ServiceAnswer(op) => Shifted(1)
     /\ (\E i \in 1..Len(reading) : onloadend(i)) => Shifted(1)
     /\ \A k \in 1..Len(msgs) : IntervalTick(TRUE, k) => Appended(msgs[k])]_vars

(***************************************************************************)
(* C12 (Spec), amended.  Every step leaves the log as it is or puts new    *)
(* entries in front of it, keeping all previous entries behind them in the *)
(* order they had.  While the App is mounted no append is lost: the mount  *)
(* effect puts its two entries in front, a validated submit, the answer to *)
(* a call, a finished file read and a logging tick of the timer each put   *)
(* exactly one entry in front.  The entry of an answer or of a finished    *)
(* file read that arrives after the App was unmounted is not appended.     *)
(***************************************************************************)
C12_LogKeepsCreationOrderWhileMounted ==
  [][/\ \E k \in 0..2 : Shifted(k)
     /\ MountEffect =>
          /\ Shifted(2)
          /\ systemLogs'[1] = LogEntry("INFO", Lit("Connecting to Gemini 2.5 Flash Lite for Market Data..."))
          /\ systemLogs'[2] = LogEntry("INFO", Lit("System Initialized"))
     /\ \A op \in Operations \ {"getMarketUpdates"} : Invocation(op) => Shifted(1)
     /\ \A op \in Operations :
          ServiceAnswer(op) => IF unmounted THEN Shifted(0) ELSE Shifted(1)
     /\ (\E i \in 1..Len(reading) : onloadend(i)) =>
          IF unmounted THEN Shifted(0) ELSE Shifted(1)
     /\ \A k \in 1..Len(msgs) : IntervalTick(TRUE, k) => Appended(msgs[k])]_vars

\* the log holds, newest first, an entry of the timer, the entry of a submit
\* handler that was created before it, and the two entries of the mount
\* effect
C12_Witness ==
  /\ Len(systemLogs) = 4
  /\ \E k \in 1..Len(msgs) : systemLogs[1].message = msgs[k]
  /\ systemLogs[2].message =
       Lit("Running Quant Model (Gemini 3 Pro - Thinking Mode) for: ") \o Lit("lithium")
  /\ systemLogs[3].message = Lit("Connecting to Gemini 2.5 Flash Lite for Market Data...")
  /\ systemLogs[4].message = Lit("System Initialized")

(***************************************************************************)
(* C13 (Spec).  As claimed: a view switch aborts nothing: it leaves the calls in       *)
(* flight and the input, result and loading flag of every Task unchanged.  *)
(* When the service later answers the call of a Task, whatever view is     *)
(* displayed then, the value the operation returns becomes the Task's      *)
(* result and the Task's loading flag is false.                            *)
(***************************************************************************)
\* the value operation op returns for answer r of the service
ValueOf(op, r) == Return(op, r).value[1]

C13_ViewSwitchAbortsNothing ==
  [][/\ \A id \in ModuleType :
          NavButton(id) =>
            UNCHANGED <<inflight, quantVars, dealVars, resourceVars, analysisVars>>
     /\ \A i \in 1..Len(inflight) : \A r \in Responses(inflight[i].op) :
          /\ QuantSettled(i, r) =>
               quantResult' = ValueOf(inflight[i].op, r) /\ ~quantLoading'
          /\ DealSettled(i, r) =>
               dealResult' = Some(ValueOf(inflight[i].op, r)) /\ ~dealLoading'
          /\ ResourceSettled(i, r) =>
               resourceResult' = Some(ValueOf(inflight[i].op, r)) /\ ~resourceLoading'
          /\ AnalysisSettled(i, r) =>
               analysisResult' = ValueOf(inflight[i].op, r) /\ ~analysisLoading']_vars

(***************************************************************************)
(* C13 (Spec), amended.  A view switch aborts nothing: it leaves the calls *)
(* in flight and the input, result and loading flag of every Task          *)
(* unchanged.  When the service later answers the call of a Task while the *)
(* App is mounted, whatever view is displayed then, the value the          *)
(* operation returns becomes the Task's result and the Task's loading flag *)
(* is false; an answer that arrives after the App was unmounted leaves     *)
(* result and loading flag as they were.                                   *)
(***************************************************************************)
C13_ViewSwitchAbortsNothingWhileMounted ==
  [][/\ \A id \in ModuleType :
          NavButton(id) =>
            UNCHANGED <<inflight, quantVars, dealVars, resourceVars, analysisVars>>
     /\ \A i \in 1..Len(inflight) : \A r \in Responses(inflight[i].op) :
          /\ QuantSettled(i, r) =>
               IF unmounted
               THEN UNCHANGED <<quantResult, quantLoading>>
               ELSE quantResult' = ValueOf(inflight[i].op, r) /\ ~quantLoading'
          /\ DealSettled(i, r) =>
               IF unmounted
               THEN UNCHANGED <<dealResult, dealLoading>>
               ELSE dealResult' = Some(ValueOf(inflight[i].op, r)) /\ ~dealLoading'
          /\ ResourceSettled(i, r) =>
               IF unmounted
               THEN UNCHANGED <<resourceResult, resourceLoading>>
               ELSE /\ resourceResult' = Some(ValueOf(inflight[i].op, r))
                    /\ ~resourceLoading'
          /\ AnalysisSettled(i, r) =>
               IF unmounted
               THEN UNCHANGED <<analysisResult, analysisLoading>>
               ELSE /\ analysisResult' = ValueOf(inflight[i].op, r)
                    /\ ~analysisLoading']_vars

\* a deal scan was submitted and the user has switched to the dashboard: its
\* call is still in flight and the Task is loading behind the hidden view
\* (every answer of the service is a possible next step from here)
C13_Witness ==
  /\ activeModule = "DASHBOARD"
  /\ dealSector = Lit("lithium")
  /\ dealLoading
  /\ CallsOf("findPrivateEquityDeals") = 1

(***************************************************************************)
(* C14 (SessionSpec).  A submit of a Task and the answer to a Task's call  *)
(* leave the input, result and loading flag of every other Task unchanged, *)
(* whatever calls of other Tasks are in flight at that moment.             *)
(***************************************************************************)
C14_TasksIndependent ==
  [][/\ (QuantSubmit \/ ServiceAnswer("generateQuantPrediction")) =>
          UNCHANGED <<dealVars, resourceVars, analysisVars>>
     /\ (DealSubmit \/ ServiceAnswer("findPrivateEquityDeals")) =>
          UNCHANGED <<quantVars, resourceVars, analysisVars>>
     /\ (ResourceSubmit \/ ServiceAnswer("findResources")) =>
          UNCHANGED <<quantVars, dealVars, analysisVars>>
     /\ (AnalysisSubmit \/ ServiceAnswer("analyzeChartImage")) =>
          UNCHANGED <<quantVars, dealVars, resourceVars>>]_vars

\* the calls of two Tasks are in flight at the same time, both Tasks loading
\* (each can be answered next, in either order)
C14_Witness ==
  /\ quantLoading /\ CallsOf("generateQuantPrediction") = 1
  /\ dealLoading /\ CallsOf("findPrivateEquityDeals") = 1
  /\ quantResult = << >> /\ dealResult = None

(***************************************************************************)
(* C15 (FairSpec).  As claimed: for every Task, whenever the Task is loading with its  *)
(* call to the service in flight, and the service answers every call (with *)
(* a result or a failure), the loading flag is eventually false.           *)
(***************************************************************************)
C15_LoadingClears ==
  /\ (quantLoading /\ CallsOf("generateQuantPrediction") > 0) ~> ~quantLoading
  /\ (dealLoading /\ CallsOf("findPrivateEquityDeals") > 0) ~> ~dealLoading
  /\ (resourceLoading /\ CallsOf("findResources") > 0) ~> ~resourceLoading
  /\ (analysisLoading /\ CallsOf("analyzeChartImage") > 0) ~> ~analysisLoading

(***************************************************************************)
(* C15 (FairSpec), amended.  For every Task: whenever the Task is loading  *)
(* with its call to the service in flight, and the service answers every   *)
(* call, the loading flag is eventually false or the App has been          *)
(* unmounted by then.                                                      *)
(***************************************************************************)
C15_LoadingClearsWhileMounted ==
  /\ (quantLoading /\ CallsOf("generateQuantPrediction") > 0)
       ~> (~quantLoading \/ unmounted)
  /\ (dealLoading /\ CallsOf("findPrivateEquityDeals") > 0)
       ~> (~dealLoading \/ unmounted)
  /\ (resourceLoading /\ CallsOf("findResources") > 0)
       ~> (~resourceLoading \/ unmounted)
  /\ (analysisLoading /\ CallsOf("analyzeChartImage") > 0)
       ~> (~analysisLoading \/ unmounted)

\* the call of an image analysis failed, and the Task is no longer loading
C15_Witness ==
  /\ Answered
  /\ settled[1].op = "analyzeChartImage"
  /\ ~settled[1].response[1].ok
  /\ analysisResult = SentinelText("analyzeChartImage")
  /\ ~analysisLoading

(***************************************************************************)
(* C16 (LifecycleSpec).  The mount effect invokes getMarketUpdates once    *)
(* and starts the timer; nothing else invokes getMarketUpdates or starts a *)
(* timer, and the mount effect runs once.  A tick of the timer leaves the  *)
(* log as it is or puts one INFO entry with one of the four messages in    *)
(* front.  Once the App is unmounted the timer is cancelled and stays      *)
(* cancelled, and no later step appends a log entry.                       *)
(***************************************************************************)
C16_ActivationAndTimer ==
  /\ [](CallsOf("getMarketUpdates") <= 1)
  /\ [](unmounted => ~interval)
  /\ [][/\ MountEffect =>
             /\ inflight = << >> /\ settled = None
             /\ interval'
             /\ IF getClient(API_KEY) = "client"
                THEN IssuedOne("getMarketUpdates") /\ settled' = None
                ELSE /\ inflight' = << >>
                     /\ settled' = Some(Settlement("getMarketUpdates", NoArgs,
                                                   None, None, Rejected))
        /\ (Len(inflight') > Len(inflight) \/ (interval' /\ ~interval)) => MountEffect
        /\ \A logs \in BOOLEAN : \A k \in 1..Len(msgs) :
             IntervalTick(logs, k) => (systemLogs' = systemLogs \/ Appended(msgs[k]))
        /\ unmounted => UNCHANGED <<systemLogs, interval>>]_vars

\* the timer has logged, the App was then unmounted with events to spare,
\* and the timer is cancelled
C16_Witness ==
  /\ unmounted
  /\ ~interval
  /\ events \in 1..(MaxEvents - 1)
  /\ \E k \in 1..Len(msgs) : systemLogs[1] = LogEntry("INFO", msgs[k])

(***************************************************************************)
(* C17 (GatewaySpec).  The AnalysisResult that findPrivateEquityDeals and  *)
(* findResources return holds no grounding chunk that carries neither a    *)
(* web reference nor a maps reference.                                     *)
(***************************************************************************)
\* the chunk carries a web reference or a maps reference
Renderable(chunk) == IsSome(chunk.web) \/ IsSome(chunk.maps)

C17_GatewayExcludesBareChunks ==
  (/\ IsSome(settled)
   /\ settled[1].op \in Grounded
   /\ settled[1].outcome.status = "fulfilled"
   /\ IsSome(settled[1].outcome.value[1].groundingChunks)) =>
    LET chunks == settled[1].outcome.value[1].groundingChunks[1]
    IN \A j \in 1..Len(chunks) : Renderable(chunks[j])

(***************************************************************************)
(* C18 (Spec).  The promise of a gateway operation never rejects, whatever *)
(* fails inside the operation, getClient included; so the await of a       *)
(* submit handler never throws, and a Task is never left loading by a      *)
(* settled promise.                                                        *)
(***************************************************************************)
C18_PromiseNeverRejects ==
  IsSome(settled) => settled[1].outcome.status = "fulfilled"

(***************************************************************************)
(* C19 (Spec).  For each user-triggered Task, a validated submit appends   *)
(* exactly one INFO entry that describes the action, and the settlement of *)
(* the Task's gateway promise appends exactly one completion INFO entry,   *)
(* behind which the start entry of the request stays; the completion entry *)
(* is appended for an answer and for a sentinel alike.  A promise that     *)
(* settles within the submit step leaves the start entry second and the    *)
(* completion entry first.                                                 *)
(***************************************************************************)
Tasks == Operations \ {"getMarketUpdates"}

\* the entry a validated submit of the Task appends
StartMessage(op) ==
  CASE op = "generateQuantPrediction" ->
         Lit("Running Quant Model (Gemini 3 Pro - Thinking Mode) for: ") \o quantQuery
    [] op = "findPrivateEquityDeals" ->
         Lit("Scanning Deal Flow (Gemini 3 Flash + Search) for: ") \o dealSector
    [] op = "findResources" ->
         Lit("Locating Resources (Gemini 2.5 Flash + Maps) for: ") \o resourceType
    [] op = "analyzeChartImage" ->
         Lit("Analyzing Visual Data (Gemini 3 Pro Vision)...")

\* the completion entry of the Task
CompleteMessage(op) ==
  CASE op = "generateQuantPrediction" -> Lit("Quant Analysis Complete")
    [] op = "findPrivateEquityDeals" -> Lit("Deal Scan Complete")
    [] op = "findResources" -> Lit("Geospatial Data Retrieved")
    [] op = "analyzeChartImage" -> Lit("Visual Analysis Complete")

C19_StartAndCompletionEntries ==
  [][\A op \in Tasks :
       /\ (Invocation(op) /\ getClient(API_KEY) = "client") =>
            Appended(StartMessage(op))
       /\ ServiceAnswer(op) => Appended(CompleteMessage(op))
       /\ (Invocation(op) /\ getClient(API_KEY) = "throws") =>
            /\ Shifted(2)
            /\ systemLogs'[1] = LogEntry("INFO", CompleteMessage(op))
            /\ systemLogs'[2] = LogEntry("INFO", StartMessage(op))]_vars

(***************************************************************************)
(* C20 (Spec).  The loading flag of a Task goes from false to true only in *)
(* a validated submit of that Task and from true to false only in the step *)
(* in which the service answers that Task's call.  Timer ticks, input      *)
(* edits, file picks and reads, view switches, the mount effect and the    *)
(* answer to the market digest change no loading flag.  There is no other  *)
(* step: as long as its call is not answered a loading Task stays loading. *)
(***************************************************************************)
loadingFlags == <<quantLoading, dealLoading, resourceLoading, analysisLoading>>

C20_LoadingOnlyBySubmitAndSettlement ==
  [][/\ (~quantLoading /\ quantLoading') => ValidQuantSubmit
     /\ (quantLoading /\ ~quantLoading') => ServiceAnswer("generateQuantPrediction")
     /\ (~dealLoading /\ dealLoading') => ValidDealSubmit
     /\ (dealLoading /\ ~dealLoading') => ServiceAnswer("findPrivateEquityDeals")
     /\ (~resourceLoading /\ resourceLoading') => ValidResourceSubmit
     /\ (resourceLoading /\ ~resourceLoading') => ServiceAnswer("findResources")
     /\ (~analysisLoading /\ analysisLoading') => ValidAnalysisSubmit
     /\ (analysisLoading /\ ~analysisLoading') => ServiceAnswer("analyzeChartImage")
     /\ (\/ \E logs \in BOOLEAN : \E k \in 1..Len(msgs) : IntervalTick(logs, k)
         \/ \E v \in Inputs : setQuantQuery(v) \/ setDealSector(v) \/ setResourceType(v)
         \/ \E v \in Prompts : setAnalysisPrompt(v)
         \/ \E f \in Files : handleFileUpload(f)
         \/ \E i \in 1..Len(reading) : onloadend(i)
         \/ \E id \in ModuleType : NavButton(id)
         \/ MountEffect
         \/ ServiceAnswer("getMarketUpdates"))
          => UNCHANGED loadingFlags]_vars

\* a quant request is in flight and unanswered; the timer has logged since
\* the submit, and the Task is still loading
C20_Witness ==
  /\ quantLoading
  /\ CallsOf("generateQuantPrediction") = 1
  /\ \E k \in 1..Len(msgs) : systemLogs[1].message = msgs[k]
  /\ Len(systemLogs) >= 2
  /\ systemLogs[2].message = StartMessage("generateQuantPrediction")

(***************************************************************************)
(* C21 (Spec).  As claimed: the result of a Task is always the value returned by the   *)
(* call of that Task that was answered last: the answer to a call          *)
(* overwrites the result whatever the result was and whatever the input    *)
(* field holds by then, and no other step changes a result.                *)
(***************************************************************************)
\* the result hook of the Task, as the value the operation returned
ResultOf(op) ==
  CASE op = "generateQuantPrediction" -> Some(quantResult)
    [] op = "findPrivateEquityDeals" -> dealResult
    [] op = "findResources" -> resourceResult
    [] op = "analyzeChartImage" -> Some(analysisResult)

C21_LastAnswerIsTheResult ==
  /\ [](\A op \in Tasks :
          (Answered /\ settled[1].op = op) => ResultOf(op) = settled[1].outcome.value)
  /\ [][/\ quantResult' # quantResult => ServiceAnswer("generateQuantPrediction")
        /\ dealResult' # dealResult => ServiceAnswer("findPrivateEquityDeals")
        /\ resourceResult' # resourceResult => ServiceAnswer("findResources")
        /\ analysisResult' # analysisResult => ServiceAnswer("analyzeChartImage")]_vars

(***************************************************************************)
(* C21 (Spec), amended.  While the App is mounted the result of a Task is  *)
(* the value returned by the call of that Task that was answered last: the *)
(* answer to a call overwrites the result whatever the result was and      *)
(* whatever the input field holds by then.  No other step changes a        *)
(* result, and once the App is unmounted no step does.                     *)
(***************************************************************************)
C21_LastAnswerIsTheResultWhileMounted ==
  /\ [](~unmounted =>
          \A op \in Tasks :
            (Answered /\ settled[1].op = op) =>
              ResultOf(op) = settled[1].outcome.value)
  /\ [][/\ quantResult' # quantResult => ServiceAnswer("generateQuantPrediction")
        /\ dealResult' # dealResult => ServiceAnswer("findPrivateEquityDeals")
        /\ resourceResult' # resourceResult => ServiceAnswer("findResources")
        /\ analysisResult' # analysisResult => ServiceAnswer("analyzeChartImage")
        /\ unmounted =>
             UNCHANGED <<quantResult, dealResult, resourceResult, analysisResult>>]_vars

\* a second quant request was answered, with a failure, and its sentinel
\* has replaced the result of the first (both completions are in the log)
C21_Witness ==
  /\ Answered
  /\ settled[1].op = "generateQuantPrediction"
  /\ ~settled[1].response[1].ok
  /\ quantResult = SentinelText("generateQuantPrediction")
  /\ Len(systemLogs) >= 4
  /\ systemLogs[1].message = Lit("Quant Analysis Complete")
  /\ systemLogs[3].message = Lit("Quant Analysis Complete")

(***************************************************************************)
(* C22 (LogSpec).  A step never modifies an entry of the log: with k       *)
(* entries appended in the step, the entry at position j is afterwards at  *)
(* position j + k, unchanged, as long as j + k is at most 50.  The only    *)
(* entries that leave the log are those pushed beyond position 50, that    *)
(* is, entries with at least 50 newer entries in front of them.            *)
(***************************************************************************)
C22_EvictedOnlyByCapacity ==
  [][\E k \in 0..1 :
       /\ Len(systemLogs') >= k
       /\ \A j \in 1..Len(systemLogs) :
            IF j + k <= 50
            THEN /\ j + k <= Len(systemLogs')
                 /\ systemLogs'[j + k] = systemLogs[j]
            ELSE Len(systemLogs') = 50]_vars

\* a logging tick on a log of exactly 50 entries has evicted the oldest one,
\* "System Initialized": the second entry ever created is now the last
C22_Witness ==
  /\ events = 1
  /\ Len(systemLogs) = 50
  /\ \E k \in 1..Len(msgs) : systemLogs[1].message = msgs[k]
  /\ systemLogs[50].message = Lit("Connecting to Gemini 2.5 Flash Lite for Market Data...")
  /\ \A j \in 1..50 : systemLogs[j].message # Lit("System Initialized")

(***************************************************************************)
(* C23 (Spec).  An image analysis submit with an image loaded invokes      *)
(* analyzeChartImage with the part of the data URL that follows its first  *)
(* comma and with the directive the user typed, or with "Analyze this      *)
(* financial chart." when the directive field is empty; the request        *)
(* carries both.  A submit with no image loaded changes nothing.           *)
(***************************************************************************)
\* the part of string s after the first occurrence of token sep
RECURSIVE AfterFirst(_, _)
AfterFirst(s, sep) ==
  IF s = << >> THEN << >>
  ELSE IF Head(s) = sep THEN Tail(s)
  ELSE AfterFirst(Tail(s), sep)

\* the arguments an image analysis submit in the current state is to pass
ExpectedAnalysisArgs ==
  [base64Image |-> Some(AfterFirst(analysisImage[1], ",")),
   prompt |-> IF analysisPrompt # << >> THEN analysisPrompt
              ELSE Lit("Analyze this financial chart.")]

C23_AnalysisArguments ==
  [][/\ (ValidAnalysisSubmit /\ getClient(API_KEY) = "client") =>
          /\ IssuedOne("analyzeChartImage")
          /\ LET c == inflight'[Len(inflight')]
             IN /\ c.args = ExpectedAnalysisArgs
                /\ c.request.contents.parts[1].inlineData.data =
                     ExpectedAnalysisArgs.base64Image
                /\ c.request.contents.parts[2].text = ExpectedAnalysisArgs.prompt
     /\ (ValidAnalysisSubmit /\ getClient(API_KEY) = "throws") =>
          /\ IsSome(settled')
          /\ settled'[1].op = "analyzeChartImage"
          /\ settled'[1].args = ExpectedAnalysisArgs
     /\ (AnalysisSubmit /\ NoImage(analysisImage)) => UNCHANGED vars]_vars

\* chart.png was loaded, a directive typed, and the analysis submitted: the
\* call in flight carries the payload without the header, and the directive
C23_Witness ==
  /\ CallsOf("analyzeChartImage") = 1
  /\ analysisPrompt = Lit("double top?")
  /\ \E i \in 1..Len(inflight) :
       /\ inflight[i].op = "analyzeChartImage"
       /\ inflight[i].args.base64Image = Some(<<"iVBORw0KGgo=">>)
       /\ inflight[i].args.prompt = Lit("double top?")

(***************************************************************************)
(* C24 (GatewaySpec).  Whatever the service does with a call (it answers   *)
(* with a text, with an empty text, without text, or it fails), the        *)
(* promise of the operation is fulfilled with a non-empty text: a          *)
(* non-empty string for the three plain-text operations, an AnalysisResult *)
(* with a non-empty text for the two grounded ones.                        *)
(***************************************************************************)
\* the text of the value operation op returned
TextOf(op, value) == IF op \in Grounded THEN value.text ELSE value

C24_TextNeverEmpty ==
  Answered =>
    /\ settled[1].outcome.status = "fulfilled"
    /\ Truthy(TextOf(settled[1].op, settled[1].outcome.value[1]))

\* the service answered a deal scan with the empty text, and the operation
\* returned its fallback text
C24_Witness ==
  /\ Answered
  /\ settled[1].op = "findPrivateEquityDeals"
  /\ settled[1].response[1] = Response(Some(<< >>), None)
  /\ settled[1].outcome.value[1].text = Lit("No deals found.")

(***************************************************************************)
(* C25 (Spec).  A request carries the input as it was when it was          *)
(* submitted.  A validated submit passes the current input to the          *)
(* operation; every call in flight keeps the request built from the        *)
(* arguments it was invoked with; an edit of an input, a file pick and a   *)
(* finished file read change no call in flight and no result; the answer   *)
(* to a call settles the call as submitted and leaves every input as it    *)
(* is, and the value it stores in the Task's result is the value the       *)
(* operation returns for the call as submitted (an answer that arrives     *)
(* after the App was unmounted stores nothing and leaves the result as it  *)
(* was).                                                                   *)
(***************************************************************************)
inputs == <<quantQuery, dealSector, resourceType, analysisPrompt, analysisImage>>
results == <<quantResult, dealResult, resourceResult, analysisResult>>

\* steps: the user changes an input
InputEdit ==
  \/ \E v \in Inputs : setQuantQuery(v) \/ setDealSector(v) \/ setResourceType(v)
  \/ \E v \in Prompts : setAnalysisPrompt(v)
  \/ \E f \in Files : handleFileUpload(f)
  \/ \E i \in 1..Len(reading) : onloadend(i)

C25_RequestKeepsSubmittedInput ==
  /\ [](\A i \in 1..Len(inflight) :
          inflight[i].request = Request(inflight[i].op, inflight[i].args))
  /\ [][/\ (ValidQuantSubmit /\ getClient(API_KEY) = "client") =>
             inflight'[Len(inflight')].args = [query |-> quantQuery]
        /\ (ValidDealSubmit /\ getClient(API_KEY) = "client") =>
             inflight'[Len(inflight')].args = [sector |-> dealSector]
        /\ (ValidResourceSubmit /\ getClient(API_KEY) = "client") =>
             inflight'[Len(inflight')].args.resourceType = resourceType
        /\ InputEdit => UNCHANGED <<inflight, settled, results>>
        /\ \A op \in Tasks : \A i \in 1..Len(inflight) :
             (inflight[i].op = op /\ ServiceAnswer(op)) =>
               /\ UNCHANGED inputs
               /\ settled'[1].args = inflight[i].args
               /\ settled'[1].request = Some(inflight[i].request)
               /\ ResultOf(op)' = IF unmounted THEN ResultOf(op)
                                  ELSE settled'[1].outcome.value]_vars

\* the quant query was edited after "lithium" was submitted: the call in
\* flight still carries "lithium"
C25_Witness ==
  /\ quantLoading
  /\ quantQuery = <<" ">>
  /\ \E i \in 1..Len(inflight) :
       /\ inflight[i].op = "generateQuantPrediction"
       /\ inflight[i].args.query = Lit("lithium")
       /\ inflight[i].request.contents = Lit("lithium")

====
